---------------------------- MODULE Spec2Model ----------------------------
(***************************************************************************)
(* A model of the binary codec layer of legacy-puyo-tools: the fpd         *)
(* character table (formats/fpd.py), the fnt character table               *)
(* (formats/fnt.py), the mtx string table (formats/mtx.py), the 4bpp       *)
(* graphic packing (formats/_graphics.py) and the shared CSV projection    *)
(* (formats/_csv.py), and the LZ11 decompressor (compression/lz11.py).     *)
(*                                                                         *)
(* Bytes are naturals 0..255, byte strings are sequences of them.  A       *)
(* Python str is a sequence of code points.  A Python call that may raise  *)
(* returns a record whose field status is "ok" or the exception's name.    *)
(* Python indices are 0-based: position k of a Python list is element k+1  *)
(* of the sequence that models it.                                         *)
(***************************************************************************)
EXTENDS Integers, Sequences, FiniteSets, TLC

VARIABLES
    fpd_input,    \* the last input handed to Fpd.decode / Fpd.read_csv
    fpd,          \* the Fpd table built from it (or the exception raised)
    fpd_encoded,  \* what Fpd.encode wrote for fpd
    fpd_string,   \* str(fpd)
    fpd_csv,      \* what Fpd.write_csv wrote for fpd
    fpd_reread,   \* Fpd.read_csv of fpd_csv
    fnt_input,    \* the last input handed to Fnt.decode / Fnt.read_csv
    fnt,          \* the Fnt table built from it (or the exception raised)
    fnt_encoded,  \* what Fnt.encode wrote for fnt, and the version asked for
    fnt_string,   \* str(fnt)
    fnt_csv,      \* what Fnt.write_csv wrote for fnt
    fnt_reread,   \* Fnt.read_csv of fnt_csv
    fnt_image,    \* the image handed to fnt.add_graphics, and fnt before it
    mtx_input,    \* the stream handed to Mtx.decode, or the strings to Mtx()
    mtx,          \* the Mtx it returned (or the exception raised)
    mtx_xml,      \* what Mtx.write_xml built for mtx, and the font it was given
    mtx_encoded,  \* what Mtx.encode wrote for mtx, and the offset size asked for
    mtx_redecoded,  \* Mtx.decode of mtx_encoded
    fmp_input,    \* the data and font size handed to Fmp.decode
    fmp,          \* the Fmp it returned (or the exception raised)
    fmp_encoded,  \* what Fmp.encode returned for fmp
    bitmap,         \* a bitmap graphic, a matrix of pixels
    bitmap_packed,  \* what write_4bpp_graphic wrote for it
    bitmap_parsed,  \* parse_4bpp_graphic of bitmap_packed
    grid_input,   \* the number or the graphics handed to a grid chooser or an export
    grid_result,  \* the pair chosen, or the grid of the exported image
    lz_input,     \* the two streams handed to decompress_lz11
    lz            \* the call of decompress_lz11: where it is, what it wrote

fpd_vars == <<fpd_input, fpd, fpd_encoded, fpd_string, fpd_csv, fpd_reread>>

fnt_vars == <<fnt_input, fnt, fnt_encoded, fnt_string, fnt_csv, fnt_reread, fnt_image>>

mtx_vars == <<mtx_input, mtx, mtx_xml, mtx_encoded, mtx_redecoded>>

fmp_vars == <<fmp_input, fmp, fmp_encoded>>

graphic_vars == <<bitmap, bitmap_packed, bitmap_parsed>>

grid_vars == <<grid_input, grid_result>>

lz_vars == <<lz_input, lz>>

vars == <<fpd_vars, fnt_vars, mtx_vars, fmp_vars, graphic_vars, grid_vars, lz_vars>>

\* What the operations of one format leave alone: the other formats' objects.
not_fpd == <<fnt_vars, mtx_vars, fmp_vars, graphic_vars, grid_vars, lz_vars>>
not_fnt == <<fpd_vars, mtx_vars, fmp_vars, graphic_vars, grid_vars, lz_vars>>
not_mtx == <<fpd_vars, fnt_vars, fmp_vars, graphic_vars, grid_vars, lz_vars>>
not_fmp == <<fpd_vars, fnt_vars, mtx_vars, graphic_vars, grid_vars, lz_vars>>
not_graphic == <<fpd_vars, fnt_vars, mtx_vars, fmp_vars, grid_vars, lz_vars>>
not_grid == <<fpd_vars, fnt_vars, mtx_vars, fmp_vars, graphic_vars, lz_vars>>
not_lz == <<fpd_vars, fnt_vars, mtx_vars, fmp_vars, graphic_vars, grid_vars>>

-----------------------------------------------------------------------------
(* Bounds of the model *)

\* The longest table (records of a binary input, rows of a CSV input).
MaxEntries == 3

\* The most strings of a string table.
MaxStrings == 2

\* The most rows of a bitmap graphic.
MaxRows == 2

\* The longest string of a mtx handed to Mtx.write_xml.
MaxIndices == 5

\* The longest patterned byte string handed to Fmp.decode: more than one
\* cell of a 14 pixel font (98 bytes).
MaxFmpBytes == 100

\* The cells of the short byte strings handed to Fmp.decode.
MaxCells == 2

\* The bytes of the strings handed to parse_4bpp_graphic.
MaxGraphicBytes == 4

\* The largest decompressed size of the headers handed to decompress_lz11.
MaxDeclared == 3

\* The bytes after the header of the streams handed to decompress_lz11.
MaxBody == 3

\* The most graphics an exported table has, and the largest number handed to
\* a grid chooser.
MaxGlyphs == 12

-----------------------------------------------------------------------------
(* Helpers: sequences, integers, struct packing *)

None == [status |-> "none"]

Min(S) == CHOOSE x \in S : \A y \in S : x <= y

RECURSIVE SeqsUpTo(_, _)
\* All sequences over S of length at most n.
SeqsUpTo(S, n) ==
    IF n = 0 THEN {<<>>}
    ELSE LET shorter == SeqsUpTo(S, n - 1)
         IN  shorter \cup {Append(s, x) : s \in {t \in shorter : Len(t) = n - 1}, x \in S}

RECURSIVE Concat(_)
\* The concatenation of a sequence of sequences.
Concat(ss) == IF ss = <<>> THEN <<>> ELSE Head(ss) \o Concat(Tail(ss))

\* struct.pack("<H", n): two bytes, low byte first.
PackU16(n) == <<n % 256, (n \div 256) % 256>>

\* struct.unpack("<H", b)
UnpackU16(b) == b[1] + 256 * b[2]

\* struct's range check of an H field
FitsU16(n) == n >= 0 /\ n <= 65535

\* struct's range check of a B field
FitsU8(n) == n >= 0 /\ n <= 255

-----------------------------------------------------------------------------
(* hex() and int(s, 16) *)

\* The character of one hexadecimal digit, as hex() writes it (lower case).
HexDigit(d) == IF d < 10 THEN 48 + d ELSE 87 + d

RECURSIVE HexDigits(_)
HexDigits(n) == IF n < 16 THEN <<HexDigit(n)>>
                ELSE Append(HexDigits(n \div 16), HexDigit(n % 16))

\* hex(n): a "-" for a negative number, "0x" and the digits, no padding.
Hex(n) == IF n < 0 THEN <<45, 48, 120>> \o HexDigits(-n)
          ELSE <<48, 120>> \o HexDigits(n)

RECURSIVE Decimal(_)
\* str(n)
Decimal(n) == IF n < 0 THEN <<45>> \o Decimal(-n)
              ELSE IF n < 10 THEN <<48 + n>>
              ELSE Append(Decimal(n \div 10), 48 + (n % 10))

\* The value of a hexadecimal digit character, -1 if it is none.
DigitValue(c) ==
    IF c >= 48 /\ c <= 57 THEN c - 48
    ELSE IF c >= 97 /\ c <= 102 THEN c - 87
    ELSE IF c >= 65 /\ c <= 70 THEN c - 55
    ELSE -1

RECURSIVE DigitsValue(_, _)
DigitsValue(s, acc) ==
    IF s = <<>> THEN acc
    ELSE DigitsValue(Tail(s), 16 * acc + DigitValue(Head(s)))

\* Py_UNICODE_ISSPACE of a character above U+007E.
UnicodeSpaces ==
    {133, 160, 5760, 8232, 8233, 8239, 8287, 12288} \cup (8192..8202)

\* The digit zero of every script with decimal digits, as the unicodedata of
\* python 3.12 has them (Unicode 15.0, the oldest python the generic function
\* of _csv.py runs on); its nine successors are the digits 1..9 of the script.
UnicodeDecimalZeros ==
    {1632, 1776, 1984, 2406, 2534, 2662, 2790, 2918, 3046, 3174, 3302, 3430,
     3558, 3664, 3792, 3872, 4160, 4240, 6112, 6160, 6470, 6608, 6784, 6800,
     6992, 7088, 7232, 7248, 42528, 43216, 43264, 43472, 43504, 43600, 44016,
     65296, 66720, 68912, 69734, 69872, 69942, 70096, 70384, 70736, 70864,
     71248, 71360, 71472, 71904, 72016, 72784, 73040, 73120, 73552, 92768,
     92864, 93008, 120782, 120792, 120802, 120812, 120822, 123200, 123632,
     124144, 125264, 130032}

\* What int() makes of one character before it parses: ASCII stays, a space
\* of Unicode becomes " ", a decimal digit of any script its ASCII digit, and
\* every other character "?".
TransformDecimalAndSpaceToASCII(c) ==
    IF c < 127 THEN c
    ELSE IF c \in UnicodeSpaces THEN 32
    ELSE IF \E z \in UnicodeDecimalZeros : c \in z..(z + 9)
    THEN 48 + c - (CHOOSE z \in UnicodeDecimalZeros : c \in z..(z + 9))
    ELSE 63

\* Py_ISSPACE
AsciiSpaces == (9..13) \cup {32}

RECURSIVE SkipSpaces(_)
\* while (Py_ISSPACE(*str)) ++str
SkipSpaces(s) ==
    IF s # <<>> /\ Head(s) \in AsciiSpaces THEN SkipSpaces(Tail(s)) ELSE s

RECURSIVE DropSpacesAtEnd(_)
DropSpacesAtEnd(s) ==
    IF s # <<>> /\ s[Len(s)] \in AsciiSpaces
    THEN DropSpacesAtEnd(SubSeq(s, 1, Len(s) - 1)) ELSE s

\* The digits of a literal without the underscores between them.
WithoutUnderscores(s) == SelectSeq(s, LAMBDA c : c # 95)

\* int(s, base=16): spaces around the literal are skipped; the literal is an
\* optional sign, an optional 0x / 0X prefix that one underscore may follow,
\* then hexadecimal digits with single underscores between them; anything
\* else raises ValueError.
ParseHex(s) ==
    LET ascii == [k \in 1..Len(s) |-> TransformDecimalAndSpaceToASCII(s[k])]
        literal == DropSpacesAtEnd(SkipSpaces(ascii))
        signed == literal # <<>> /\ Head(literal) \in {43, 45}
        sign == IF signed /\ Head(literal) = 45 THEN -1 ELSE 1
        unsigned == IF signed THEN Tail(literal) ELSE literal
        prefixed == Len(unsigned) >= 2 /\ unsigned[1] = 48 /\ unsigned[2] \in {120, 88}
        after == IF prefixed THEN SubSeq(unsigned, 3, Len(unsigned)) ELSE unsigned
        body == IF prefixed /\ after # <<>> /\ Head(after) = 95 THEN Tail(after)
                ELSE after
    IN  IF \/ body = <<>>
           \/ \E k \in 1..Len(body) : body[k] # 95 /\ DigitValue(body[k]) = -1
           \/ body[1] = 95
           \/ body[Len(body)] = 95
           \/ \E k \in 1..(Len(body) - 1) : body[k] = 95 /\ body[k + 1] = 95
        THEN [status |-> "ValueError", value |-> 0]
        ELSE [status |-> "ok", value |-> sign * DigitsValue(WithoutUnderscores(body), 0)]

-----------------------------------------------------------------------------
(* formats/fpd.py *)

FPD_ENTRY_LENGTH == 3

FPD_CSV_HEADER == <<"character", "width">>

\* A value of the OrderedBidict: a FpdCharacter ...
FpdCharacter(character, width) ==
    [t |-> "chr", character |-> character, width |-> width, target |-> 0]

\* ... or an int, the index of another entry.
FpdIndex(index) ==
    [t |-> "int", character |-> <<>>, width |-> 0, target |-> index]

\* Equality of two values of the table: attrs compares FpdCharacter by
\* character alone (width has eq=False); an int never equals a FpdCharacter.
FpdValueEq(a, b) ==
    /\ a.t = b.t
    /\ IF a.t = "chr" THEN a.character = b.character ELSE a.target = b.target

\* character_table.inverse.get(value, -1): the key holding the value.
InverseGet(entries, value) ==
    LET keys == {k \in 1..Len(entries) : FpdValueEq(entries[k], value)}
    IN  IF keys = {} THEN -1 ELSE Min(keys) - 1

\* OrderedBidict.put(len(entries), value): raises on a duplicated value.
BidictPut(table, value) ==
    IF InverseGet(table.entries, value) # -1
    THEN [status |-> "ValueDuplicationError", entries |-> table.entries]
    ELSE [status |-> "ok", entries |-> Append(table.entries, value)]

RECURSIVE FpdFollowInverse(_, _)
\* while character_table.inverse.get(character_index, -1) != -1: ...
FpdFollowInverse(entries, character_index) ==
    LET next == InverseGet(entries, FpdIndex(character_index))
    IN  IF next # -1 THEN FpdFollowInverse(entries, next) ELSE character_index

\* The self-referring alias of a loop that stores the index being inserted.
FpdAliasTargetSelf(entries, character) == Len(entries)

\* The index an entry for an already present character is aliased to.
FpdAliasTarget(entries, character) ==
    FpdFollowInverse(entries, InverseGet(entries, character))

\* An insertion that keeps one entry per character and drops a repetition.
FpdInsertCompacting(table, character) ==
    IF InverseGet(table.entries, character) # -1
    THEN table
    ELSE BidictPut(table, character)

\* The body of the loops of Fpd.decode and Fpd.read_csv.
FpdInsert(table, character) ==
    IF InverseGet(table.entries, character) # -1
    THEN BidictPut(table, FpdIndex(FpdAliasTarget(table.entries, character)))
    ELSE BidictPut(table, character)

RECURSIVE FpdDecodeFrom(_, _)
FpdDecodeFrom(data, table) ==
    IF data = <<>> \/ table.status # "ok" THEN table
    ELSE IF Len(data) < FPD_ENTRY_LENGTH
    THEN [status |-> "FormatError", entries |-> <<>>]
    ELSE FpdDecodeFrom(
             SubSeq(data, FPD_ENTRY_LENGTH + 1, Len(data)),
             FpdInsert(table, FpdCharacter(<<UnpackU16(data)>>, data[3])))

Fpd_decode(data) == FpdDecodeFrom(data, [status |-> "ok", entries |-> <<>>])

RECURSIVE FpdResolve(_, _, _, _)
\* while isinstance(character, int): character = self.entries[character]
\* fuel bounds the walk: a walk that uses it up would never end.
FpdResolve(entries, value, hops, fuel) ==
    IF value.t = "chr" THEN [status |-> "ok", value |-> value, hops |-> hops]
    ELSE IF fuel = 0 THEN [status |-> "loops", value |-> value, hops |-> hops]
    ELSE IF value.target + 1 \notin 1..Len(entries)
    THEN [status |-> "KeyError", value |-> value, hops |-> hops]
    ELSE FpdResolve(entries, entries[value.target + 1], hops + 1, fuel - 1)

\* Fpd.__getitem__
Fpd_getitem(entries, index) ==
    IF index + 1 \notin 1..Len(entries)
    THEN [status |-> "KeyError", value |-> FpdIndex(index), hops |-> 0]
    ELSE FpdResolve(entries, entries[index + 1], 0, Len(entries) + 1)

\* Fpd.__str__
Fpd_str(entries) ==
    Concat([k \in 1..Len(entries) |->
               FpdResolve(entries, entries[k], 0, Len(entries) + 1).value.character])

\* FpdCharacter.encode: struct.pack("<HB", ord(character), width)
FpdCharacter_encode(c) ==
    IF Len(c.character) # 1 THEN [status |-> "TypeError", bytes |-> <<>>]
    ELSE IF ~FitsU16(c.character[1]) \/ ~FitsU8(c.width)
    THEN [status |-> "UnicodeEncodeError", bytes |-> <<>>]
    ELSE [status |-> "ok", bytes |-> PackU16(c.character[1]) \o <<c.width>>]

RECURSIVE FpdEncodeFrom(_, _, _)
FpdEncodeFrom(entries, k, written) ==
    IF k > Len(entries) THEN [status |-> "ok", bytes |-> written, failed |-> <<>>]
    ELSE LET character == FpdResolve(entries, entries[k], 0, Len(entries) + 1).value
             packed == FpdCharacter_encode(character)
         IN  IF packed.status = "ok"
             THEN FpdEncodeFrom(entries, k + 1, written \o packed.bytes)
             ELSE [status |-> IF packed.status = "UnicodeEncodeError"
                              THEN "FormatError" ELSE packed.status,
                   bytes |-> written, failed |-> character.character]

\* Fpd.encode: the bytes written to fp, and the exception if one is raised
\* (failed is the character its message names).
Fpd_encode(entries) == FpdEncodeFrom(entries, 1, <<>>)

\* A writer that serializes the width with str() instead of hex().
Fpd_write_csv_decimal(entries) ==
    [header |-> FPD_CSV_HEADER,
     rows |-> [k \in 1..Len(entries) |->
                  LET character == FpdResolve(entries, entries[k], 0,
                                              Len(entries) + 1).value
                  IN  <<character.character, Decimal(character.width)>>]]

\* Fpd.write_csv: the header row, then one row per value of the table.
Fpd_write_csv(entries) ==
    [header |-> FPD_CSV_HEADER,
     rows |-> [k \in 1..Len(entries) |->
                  LET character == FpdResolve(entries, entries[k], 0,
                                              Len(entries) + 1).value
                  IN  <<character.character, Hex(character.width)>>]]

RECURSIVE FpdReadRows(_, _)
FpdReadRows(rows, table) ==
    IF rows = <<>> \/ table.status # "ok" THEN table
    ELSE LET width == ParseHex(Head(rows)[2])
         IN  IF width.status # "ok"
             THEN [status |-> "ValueError", entries |-> <<>>]
             ELSE FpdReadRows(Tail(rows),
                      FpdInsert(table, FpdCharacter(Head(rows)[1], width.value)))

\* Fpd.read_csv
Fpd_read_csv(csv) ==
    IF csv.header # FPD_CSV_HEADER
    THEN [status |-> "FormatError", entries |-> <<>>]
    ELSE FpdReadRows(csv.rows, [status |-> "ok", entries |-> <<>>])

\* The (character, width) pair every index of a table resolves to.
FpdPairs(entries) ==
    [k \in 1..Len(entries) |->
        LET character == FpdResolve(entries, entries[k], 0, Len(entries) + 1).value
        IN  <<character.character, character.width>>]

-----------------------------------------------------------------------------
(* Binary streams *)

\* fp.read(n) at position pos: at most n bytes, fewer at the end of the data.
ReadAt(data, pos, n) ==
    SubSeq(data, pos + 1, IF pos + n < Len(data) THEN pos + n ELSE Len(data))

RECURSIVE FromBytes(_)
\* int.from_bytes(b, "little"), also of fewer bytes than asked for.
FromBytes(b) == IF b = <<>> THEN 0 ELSE Head(b) + 256 * FromBytes(Tail(b))

RECURSIVE ToBytes(_, _)
\* n.to_bytes(length, "little") of a number that fits.
ToBytes(n, length) ==
    IF length = 0 THEN <<>> ELSE <<n % 256>> \o ToBytes(n \div 256, length - 1)

\* struct's range check of an L field: 0 <= n < 2^32
FitsU32(n) == n >= 0 /\ n \div 65536 <= 65535

-----------------------------------------------------------------------------
(* formats/_graphics.py *)

BITS_PER_PIXEL == 4
BITS_PER_BYTE == 8
PIXELS_PER_BYTE == BITS_PER_BYTE \div BITS_PER_PIXEL

\* byte >> BITS_PER_PIXEL
HighNibble(byte) == byte \div 16

\* byte & 0xF
LowNibble(byte) == byte % 16

\* The pixels of a byte with the nibbles taken in the opposite order.
BytePixelsHighFirst(byte) == <<HighNibble(byte) # 0, LowNibble(byte) # 0>>

\* The two pixels of a byte in the order the row is extended with them:
\* graphic_row.extend((upper_nibble, lower_nibble)) where upper_nibble is
\* byte & 0xF and lower_nibble is byte >> 4; dtype=bool makes nonzero True.
BytePixels(byte) == <<LowNibble(byte) # 0, HighNibble(byte) # 0>>

\* One row of parse_4bpp_graphic: the pixels of the bytes of a row.
RowPixels(bytes) == Concat([k \in 1..Len(bytes) |-> BytePixels(bytes[k])])

\* parse_4bpp_graphic: the rows of graphic_width bytes each, as a matrix.
\* range() with a step of 0 and np.array of rows of unequal length raise
\* ValueError; a single row shorter than graphic_width is a matrix of one row.
parse_4bpp_graphic(graphic_data, graphic_width) ==
    IF graphic_width = 0 THEN [status |-> "ValueError", pixels |-> <<>>]
    ELSE LET nrows == (Len(graphic_data) + graphic_width - 1) \div graphic_width
             rows == [r \in 1..nrows |->
                         RowPixels(ReadAt(graphic_data, (r - 1) * graphic_width,
                                          graphic_width))]
         IN  IF Len(graphic_data) % graphic_width # 0 /\ nrows > 1
             THEN [status |-> "ValueError", pixels |-> <<>>]
             ELSE [status |-> "ok", pixels |-> rows]

\* int(pixel) of a bool
Bit(pixel) == IF pixel THEN 1 ELSE 0

RECURSIVE Write4bppFrom(_, _)
Write4bppFrom(graphic, written) ==
    IF graphic = <<>> THEN [status |-> "ok", bytes |-> written]
    ELSE IF Len(graphic) < PIXELS_PER_BYTE
    THEN [status |-> "ValueError", bytes |-> written]
    ELSE Write4bppFrom(SubSeq(graphic, PIXELS_PER_BYTE + 1, Len(graphic)),
             Append(written, Bit(graphic[2]) * 16 + Bit(graphic[1])))

\* write_4bpp_graphic of a flat array of pixels: one byte per two pixels,
\* (upper_nibble << 4) | lower_nubble, the first pixel the lower one.  A
\* last slice of one pixel fails to unpack (ValueError).
write_4bpp_graphic(graphic) == Write4bppFrom(graphic, <<>>)

\* graphic.reshape(-1): the rows one after the other.
Flatten(pixels) == Concat(pixels)

\* np.array(im.crop((left, upper, right, lower)), dtype=bool) of an image
\* im = [height, width, pixels] of mode "1": the rows upper..lower-1 of the
\* columns left..right-1.
ImageCrop(im, left, upper, right, lower) ==
    [r \in 1..(lower - upper) |->
        [c \in 1..(right - left) |-> im.pixels[upper + r][left + c]]]

\* The graphics of an image taken column by column.
parse_graphics_from_image_by_columns(im, font_height, font_width, padding) ==
    LET graphic_height == font_height + (padding * 2)
        graphic_width == font_width + (padding * 2)
    IN  IF graphic_height = 0 \/ graphic_width = 0
        THEN [status |-> "ZeroDivisionError", graphics |-> <<>>]
        ELSE LET hd == im.height \div graphic_height
                 hr == im.height % graphic_height
                 wd == im.width \div graphic_width
                 wr == im.width % graphic_width
             IN  IF hr # 0 \/ wr # 0
                 THEN [status |-> "ValueError", graphics |-> <<>>]
                 ELSE [status |-> "ok",
                       graphics |->
                           [i \in 1..(hd * wd) |->
                               LET row == (i - 1) % hd
                                   col == (i - 1) \div hd
                               IN  ImageCrop(im,
                                             col * graphic_width + padding,
                                             row * graphic_height + padding,
                                             (col + 1) * graphic_width - padding,
                                             (row + 1) * graphic_height - padding)]]

\* parse_graphics_from_image of an image of mode "1": the crops of the cells
\* of font_height + 2 * padding by font_width + 2 * padding pixels without
\* their padding, for row in range(hd) for col in range(wd).
parse_graphics_from_image(im, font_height, font_width, padding) ==
    LET graphic_height == font_height + (padding * 2)
        graphic_width == font_width + (padding * 2)
    IN  IF graphic_height = 0 \/ graphic_width = 0
        THEN [status |-> "ZeroDivisionError", graphics |-> <<>>]
        ELSE LET hd == im.height \div graphic_height
                 hr == im.height % graphic_height
                 wd == im.width \div graphic_width
                 wr == im.width % graphic_width
             IN  IF hr # 0 \/ wr # 0
                 THEN [status |-> "ValueError", graphics |-> <<>>]
                 ELSE [status |-> "ok",
                       graphics |->
                           [i \in 1..(hd * wd) |->
                               LET row == (i - 1) \div wd
                                   col == (i - 1) % wd
                               IN  ImageCrop(im,
                                             col * graphic_width + padding,
                                             row * graphic_height + padding,
                                             (col + 1) * graphic_width - padding,
                                             (row + 1) * graphic_height - padding)]]

-----------------------------------------------------------------------------
(* formats/fmp.py *)

\* bytes_width = font_size * BITS_PER_PIXEL // BITS_PER_BYTE
FmpBytesWidth(font_size) == (font_size * BITS_PER_PIXEL) \div BITS_PER_BYTE

\* A cell size that leaves out the factor for the two halves of the font.
FmpCharacterSizeOneHalf(font_size) ==
    FmpBytesWidth(font_size) * FmpBytesWidth(font_size)

\* character_size = (bytes_width**2) * 2
FmpCharacterSize(font_size) ==
    (FmpBytesWidth(font_size) * FmpBytesWidth(font_size)) * 2

\* The pixels of a byte of a fmp with the high nibble first (not the code's
\* order).
FmpBytePixelsHighFirst(byte) == <<(byte \div 16) # 0, (byte % 16) # 0>>

\* lower_nibble, upper_nibble = (byte >> BITS_PER_PIXEL), byte & 0xF
\* row.extend((upper_nibble, lower_nibble)); np.bool makes nonzero True.
FmpBytePixels(byte) == <<(byte % 16) # 0, (byte \div 16) # 0>>

\* for j in range(i, i + character_size, bytes_width): the rows of one cell.
FmpGraphic(cell, bytes_width) ==
    [r \in 1..(Len(cell) \div bytes_width) |->
        Concat([k \in 1..bytes_width |->
                   FmpBytePixels(cell[(r - 1) * bytes_width + k])])]

FmpFailed(status) == [status |-> status, font |-> <<>>, font_size |-> 0]

\* Fmp.decode(data, font_size=...)
Fmp_decode(data, font_size) ==
    LET bytes_width == FmpBytesWidth(font_size)
        character_size == FmpCharacterSize(font_size)
    IN  IF character_size = 0 THEN FmpFailed("ZeroDivisionError")
        ELSE IF Len(data) % character_size # 0 THEN FmpFailed("FormatError")
        ELSE [status |-> "ok",
              font |-> [c \in 1..(Len(data) \div character_size) |->
                           FmpGraphic(SubSeq(data, (c - 1) * character_size + 1,
                                             c * character_size),
                                      bytes_width)],
              font_size |-> font_size]

\* byte = (upper_nibble << BITS_PER_PIXEL) | lower_nubble for the pixels
\* i, i + 1 of the flattened graphic.
FmpGraphicBytes(graphic) ==
    [k \in 1..(Len(graphic) \div 2) |->
        Bit(graphic[2 * k]) * 16 + Bit(graphic[2 * k - 1])]

\* Fmp.encode: the bytes of the graphics in table order; a graphic with an
\* odd number of pixels fails to unpack into two nibbles (ValueError).
Fmp_encode(font) ==
    IF \E c \in 1..Len(font) : Len(Flatten(font[c])) % 2 # 0
    THEN [status |-> "ValueError", bytes |-> <<>>]
    ELSE [status |-> "ok",
          bytes |-> Concat([c \in 1..Len(font) |-> FmpGraphicBytes(Flatten(font[c]))])]

-----------------------------------------------------------------------------
(* formats/_math.py, _math.py and the grid of an exported image *)

\* math.isqrt(n) of a nonnegative n
ISqrt(n) == CHOOSE r \in 0..n : r * r <= n /\ (r + 1) * (r + 1) > n

\* (None, None), and a pair of integers, as a chooser returns them.
NoPair == [status |-> "ok", pair |-> <<>>]
Pair(a, b) == [status |-> "ok", pair |-> <<a, b>>]

RECURSIVE ProperDivisorPairFrom(_, _, _)
\* for i in range(isqrt(n), 1, -1): the first i that divides n with
\* condition(i) or condition(n // i) gives (n // i, i).  A condition is the
\* set of the integers it holds for.
ProperDivisorPairFrom(n, i, condition) ==
    IF i <= 1 THEN NoPair
    ELSE IF n % i # 0 THEN ProperDivisorPairFrom(n, i - 1, condition)
    ELSE LET d == n \div i
         IN  IF i \in condition \/ d \in condition THEN Pair(d, i)
             ELSE ProperDivisorPairFrom(n, i - 1, condition)

\* find_largest_proper_divisor_pair(n, condition); isqrt raises ValueError
\* for a negative n.
find_largest_proper_divisor_pair(n, condition) ==
    IF n < 0 THEN [status |-> "ValueError", pair |-> <<>>]
    ELSE ProperDivisorPairFrom(n, ISqrt(n), condition)

\* lambda _: True, the default condition
AnyNumber == Int

\* lambda x: x <= max_width
AtMost(max_width) == {x \in Int : x <= max_width}

\* find_medium_divisors(n) of _math.py: the pair (a, n // a) of the largest
\* divisor a of n with a * a <= n; ValueError when n is not a natural number.
find_medium_divisors(n) ==
    IF n <= 0 THEN [status |-> "ValueError", pair |-> <<>>]
    ELSE LET a == CHOOSE a \in 1..n :
                      /\ n % a = 0
                      /\ a * a <= n
                      /\ \A c \in 1..n : (n % c = 0 /\ c * c <= n) => c <= a
         IN  Pair(a, n \div a)

\* An export that raised.
NoImage(status) ==
    [status |-> status, width |-> 0, height |-> 0, im_width |-> 0, im_height |-> 0,
     cells |-> <<>>]

\* The image of a grid of width x height cells of graphic_width x
\* graphic_height pixels: its size in cells and in pixels and, for every row
\* and column of the grid, the index of the graphic pasted there,
\* font[(row * width) + col].
ImageOfGrid(width, height, graphic_width, graphic_height) ==
    [status |-> "ok", width |-> width, height |-> height,
     im_width |-> graphic_width * width, im_height |-> graphic_height * height,
     cells |-> [row \in 1..height |-> [col \in 1..width |-> ((row - 1) * width) + (col - 1)]]]

\* write_graphics_to_image(font, font_height, font_width, padding,
\* orientation) of formats/_graphics.py: the grid of find_medium_divisors,
\* its sides swapped to the orientation.
write_graphics_to_image(font, font_height, font_width, padding, orientation) ==
    LET chosen == find_medium_divisors(Len(font))
        swap == \/ orientation = "portrait" /\ chosen.pair[1] > chosen.pair[2]
                \/ orientation = "landscape" /\ chosen.pair[1] < chosen.pair[2]
        width == IF swap THEN chosen.pair[2] ELSE chosen.pair[1]
        height == IF swap THEN chosen.pair[1] ELSE chosen.pair[2]
    IN  IF chosen.status # "ok" THEN NoImage(chosen.status)
        ELSE ImageOfGrid(width, height, font_width + (padding * 2),
                         font_height + (padding * 2))

\* Fmp.to_image(max_width=, padding=) of formats/fmp.py: the grid of
\* find_largest_proper_divisor_pair with the condition x <= max_width,
\* ValueError when it finds none, the smaller side as the width.
Fmp_to_image(self, max_width, padding) ==
    LET chosen == find_largest_proper_divisor_pair(Len(self.font), AtMost(max_width))
        swap == chosen.pair[1] > chosen.pair[2]
        width == IF swap THEN chosen.pair[2] ELSE chosen.pair[1]
        height == IF swap THEN chosen.pair[1] ELSE chosen.pair[2]
        graphic_size == self.font_size + (padding * 2)
    IN  IF chosen.status # "ok" THEN NoImage(chosen.status)
        ELSE IF chosen.pair = <<>> THEN NoImage("ValueError")
        ELSE ImageOfGrid(width, height, graphic_size, graphic_size)

-----------------------------------------------------------------------------
(* formats/_csv.py *)

CSV_TABLE_HEADER == <<"code_point", "width">>

\* A cell read from a CSV is a str; a decoded width is an int.
IntValue(n) == [t |-> "int", n |-> n, s |-> <<>>]
StrValue(s) == [t |-> "str", n |-> 0, s |-> s]

\* character_table[key] = value of an OrderedDict: a present key keeps its
\* position and takes the new value.
DictSet(font, key, value) ==
    IF \E k \in 1..Len(font) : font[k].key = key
    THEN [k \in 1..Len(font) |->
             IF font[k].key = key THEN [key |-> key, value |-> value] ELSE font[k]]
    ELSE Append(font, [key |-> key, value |-> value])

RECURSIVE CsvReadRows(_, _)
CsvReadRows(rows, character_table) ==
    IF rows = <<>> THEN character_table
    ELSE CsvReadRows(Tail(rows),
             DictSet(character_table, Head(rows)[1],
                     [present |-> FALSE, pixels |-> <<>>,
                      width |-> StrValue(Head(rows)[2])]))

\* read_csv_character_table with the cast of Fnt.read_csv,
\* lambda width: FntCharacter(None, width): the cell is stored as it is read.
read_csv_character_table(csv) ==
    IF csv.header # CSV_TABLE_HEADER
    THEN [status |-> "FileFormatError", font |-> <<>>]
    ELSE [status |-> "ok", font |-> CsvReadRows(csv.rows, <<>>)]

\* write_csv_character_table: hex(character.width) raises TypeError for a
\* width that is not an int.
write_csv_character_table(character_table) ==
    IF \E k \in 1..Len(character_table) : character_table[k].value.width.t # "int"
    THEN [status |-> "TypeError", csv |-> [header |-> CSV_TABLE_HEADER, rows |-> <<>>]]
    ELSE [status |-> "ok",
          csv |-> [header |-> CSV_TABLE_HEADER,
                   rows |-> [k \in 1..Len(character_table) |->
                                <<character_table[k].key,
                                  Hex(character_table[k].value.width.n)>>]]]

-----------------------------------------------------------------------------
(* formats/fnt.py *)

FNT_MAGIC_NUMBER == <<70, 78, 84, 0>>
FNT_HEADER_LENGTH == 16
FNT_CHARACTER_ENTRY_FORMAT_LENGTH == 4
FNT_NDS_IDENTIFIER == <<224, 3, 255, 127, 198, 24>>
FNT_NDS_IDENTIFIER_LENGTH == 6
FNT_NDS_HEADER_LENGTH == 32
FNT_WII_IDENTIFIER == {<<71, 67, 73, 88>>, <<71, 86, 82, 84>>}
FNT_WII_IDENTIFIER_LENGTH == 4
FNT_PSP_IDENTIFIER == <<77, 73, 71, 46, 48, 48, 46, 49, 80, 83, 80>>
FNT_PSP_IDENTIFIER_LENGTH == 11

\* version.encode() of a FntFormatVersion
VersionBytes(version) ==
    CASE version = "GCIX" -> <<71, 67, 73, 88>>
      [] version = "GVRT" -> <<71, 86, 82, 84>>
      [] version = "PSP" -> <<80, 83, 80>>
      [] version = "NDS" -> <<78, 68, 83>>
      [] OTHER -> <<80, 84, 69>>

\* FntCharacter(graphic, width); graphic None is present = FALSE.
FntCharacter(graphic, width) ==
    [present |-> graphic.present, pixels |-> graphic.pixels, width |-> width]

NoGraphic == [present |-> FALSE, pixels |-> <<>>]

FntFailed(status) ==
    [status |-> status, font |-> <<>>, font_height |-> 0, font_width |-> 0,
     graphic_size |-> 0, character_list |-> <<>>, reads |-> 0]

\* cls(font, font_height, font_width, graphic_size): character_list defaults
\* to list(self.font), the keys in order.
FntNew(font, font_height, font_width, graphic_size) ==
    [status |-> "ok", font |-> font, font_height |-> font_height,
     font_width |-> font_width, graphic_size |-> graphic_size,
     character_list |-> [k \in 1..Len(font) |-> font[k].key], reads |-> 0]

\* The length Fnt.decode compares with the header's count when the NDS
\* identifier is absent: the position of the trailing identifier it finds,
\* or the size of the data.
FntLengthWithoutTrailer(data) ==
    IF ReadAt(data, Len(data) - FNT_WII_IDENTIFIER_LENGTH, FNT_WII_IDENTIFIER_LENGTH)
           \in FNT_WII_IDENTIFIER
    THEN Len(data) - FNT_WII_IDENTIFIER_LENGTH
    ELSE IF ReadAt(data, Len(data) - FNT_PSP_IDENTIFIER_LENGTH, FNT_PSP_IDENTIFIER_LENGTH)
                = FNT_PSP_IDENTIFIER
    THEN Len(data) - FNT_PSP_IDENTIFIER_LENGTH
    ELSE Len(data)

RECURSIVE FntDecodeEntries(_, _, _, _, _, _)
\* for _ in range(character_length): one record, and its graphic if any.
FntDecodeEntries(data, pos, left, parse_graphics, dims, font) ==
    IF left = 0 THEN [status |-> "ok", font |-> font]
    ELSE LET entry == ReadAt(data, pos, FNT_CHARACTER_ENTRY_FORMAT_LENGTH)
             graphic_size == dims[1]
             graphic_width == dims[2]
             parsed == parse_4bpp_graphic(
                           ReadAt(data, pos + FNT_CHARACTER_ENTRY_FORMAT_LENGTH,
                                  graphic_size),
                           graphic_width)
             graphic == IF parse_graphics
                        THEN [present |-> TRUE, pixels |-> parsed.pixels]
                        ELSE NoGraphic
             step == FNT_CHARACTER_ENTRY_FORMAT_LENGTH
                         + (IF parse_graphics THEN graphic_size ELSE 0)
         IN  IF Len(entry) # FNT_CHARACTER_ENTRY_FORMAT_LENGTH
             THEN [status |-> "struct.error", font |-> <<>>]
             ELSE IF parse_graphics /\ parsed.status # "ok"
             THEN [status |-> parsed.status, font |-> <<>>]
             ELSE FntDecodeEntries(data, pos + step, left - 1, parse_graphics, dims,
                      DictSet(font, <<UnpackU16(entry)>>,
                              FntCharacter(graphic,
                                           IntValue(UnpackU16(SubSeq(entry, 3, 4))))))

\* A source that decodes as if every source could seek.
FntUnseekableIgnored(fp) == FALSE

\* if not fp.seekable()
FntUnseekable(fp) == ~fp.seekable

\* Fnt.decode of a stream fp = [seekable, data]; reads counts the calls of
\* fp.read it made.
Fnt_decode(fp) ==
    LET data == fp.data
        header == ReadAt(data, 0, FNT_HEADER_LENGTH)
        font_height == FromBytes(SubSeq(header, 5, 8))
        font_width == FromBytes(SubSeq(header, 9, 12))
        character_length == FromBytes(SubSeq(header, 13, 16))
        graphic_size == (font_height * font_width) \div PIXELS_PER_BYTE
        parse_graphics ==
            ReadAt(data, FNT_HEADER_LENGTH, FNT_NDS_IDENTIFIER_LENGTH) = FNT_NDS_IDENTIFIER
        expected ==
            IF parse_graphics
            THEN FNT_HEADER_LENGTH + FNT_NDS_HEADER_LENGTH
                     + character_length * (FNT_CHARACTER_ENTRY_FORMAT_LENGTH + graphic_size)
            ELSE FNT_HEADER_LENGTH + character_length * FNT_CHARACTER_ENTRY_FORMAT_LENGTH
        actual == IF parse_graphics THEN Len(data) ELSE FntLengthWithoutTrailer(data)
        start == IF parse_graphics THEN FNT_HEADER_LENGTH + FNT_NDS_HEADER_LENGTH
                 ELSE FNT_HEADER_LENGTH
        entries == FntDecodeEntries(data, start, character_length, parse_graphics,
                                    <<graphic_size, font_width \div PIXELS_PER_BYTE>>, <<>>)
        \* The calls of fp.read up to the size check: the header, the NDS
        \* identifier, then the trailing identifiers tried.
        probes ==
            IF parse_graphics THEN 2
            ELSE IF ReadAt(data, Len(data) - FNT_WII_IDENTIFIER_LENGTH,
                           FNT_WII_IDENTIFIER_LENGTH) \in FNT_WII_IDENTIFIER
            THEN 3
            ELSE 4
        per_entry == IF parse_graphics THEN 2 ELSE 1
    IN  IF FntUnseekable(fp) THEN FntFailed("UnsupportedOperation")
        ELSE IF Len(header) # FNT_HEADER_LENGTH
        THEN [FntFailed("struct.error") EXCEPT !.reads = 1]
        ELSE IF SubSeq(header, 1, 4) # FNT_MAGIC_NUMBER
        THEN [FntFailed("FileFormatError") EXCEPT !.reads = 1]
        ELSE IF actual # expected
        THEN [FntFailed("FileFormatError") EXCEPT !.reads = probes]
        ELSE IF entries.status # "ok"
        THEN [FntFailed(entries.status) EXCEPT !.reads = probes + per_entry]
        ELSE [FntNew(entries.font, font_height, font_width, graphic_size)
                 EXCEPT !.reads = probes + per_entry * character_length]

\* Fnt.__getitem__
\* self.character_list[index]: a negative index counts from the end of the list.
Fnt_getitem(self, index) ==
    LET position == IF index < 0 THEN index + Len(self.character_list) ELSE index
    IN  IF position + 1 \in 1..Len(self.character_list)
        THEN [status |-> "ok", character |-> self.character_list[position + 1]]
        ELSE [status |-> "IndexError", character |-> <<>>]

\* Fnt.__str__
Fnt_str(self) == Concat([k \in 1..Len(self.font) |-> self.font[k].key])

\* Fnt._get_fnt_graphics, flattened: the graphic, or np.zeros(graphic_size).
Fnt_get_fnt_graphics(self, character) ==
    IF character.present THEN Flatten(character.pixels)
    ELSE [k \in 1..self.graphic_size |-> FALSE]

\* A table that never reports a graphic.
Fnt_has_no_graphics(self) == FALSE

\* Fnt.has_graphics
Fnt_has_graphics(self) == \E k \in 1..Len(self.font) : self.font[k].value.present

RECURSIVE FntEncodeEntries(_, _, _, _)
FntEncodeEntries(self, k, write_graphics, written) ==
    IF k > Len(self.font) THEN [status |-> "ok", bytes |-> written, failed |-> <<>>]
    ELSE LET code_point == self.font[k].key
             character == self.font[k].value
             graphic == write_4bpp_graphic(Fnt_get_fnt_graphics(self, character))
         IN  IF Len(code_point) # 1
             THEN [status |-> "TypeError", bytes |-> written, failed |-> code_point]
             ELSE IF \/ ~FitsU16(code_point[1])
                     \/ character.width.t # "int"
                     \/ ~FitsU16(character.width.n)
             THEN [status |-> "FileFormatError", bytes |-> written, failed |-> code_point]
             ELSE LET entry == written \o PackU16(code_point[1])
                                       \o PackU16(character.width.n)
                  IN  IF ~write_graphics
                      THEN FntEncodeEntries(self, k + 1, write_graphics, entry)
                      ELSE IF graphic.status # "ok"
                      THEN [status |-> graphic.status, bytes |-> entry \o graphic.bytes,
                            failed |-> code_point]
                      ELSE FntEncodeEntries(self, k + 1, write_graphics,
                                            entry \o graphic.bytes)

\* Fnt.encode: the bytes written to fp, and the exception if one is raised.
Fnt_encode(self, version) ==
    LET header == FNT_MAGIC_NUMBER \o ToBytes(self.font_height, 4)
                      \o ToBytes(self.font_width, 4) \o ToBytes(Len(self.font), 4)
        write_graphics == version = "NDS" \/ (version = "PTE" /\ Fnt_has_graphics(self))
        nds_header == IF write_graphics
                      THEN FNT_NDS_IDENTIFIER
                           \o [k \in 1..(FNT_NDS_HEADER_LENGTH - FNT_NDS_IDENTIFIER_LENGTH) |-> 0]
                      ELSE <<>>
        entries == FntEncodeEntries(self, 1, write_graphics, header \o nds_header)
    IN  IF ~FitsU32(self.font_height) \/ ~FitsU32(self.font_width)
        THEN [status |-> "struct.error", bytes |-> <<>>, failed |-> <<>>]
        ELSE IF entries.status # "ok" THEN entries
        ELSE IF version = "PSP"
        THEN [entries EXCEPT !.bytes = @ \o FNT_PSP_IDENTIFIER]
        ELSE IF VersionBytes(version) \in FNT_WII_IDENTIFIER
        THEN [entries EXCEPT !.bytes = @ \o VersionBytes(version)]
        ELSE entries

\* Fnt.read_csv(fp, font_height=..., font_width=...)
Fnt_read_csv(csv, font_height, font_width) ==
    LET table == read_csv_character_table(csv)
    IN  IF font_width % 2 # 0 THEN FntFailed("ValueError")
        ELSE IF table.status # "ok" THEN FntFailed(table.status)
        ELSE FntNew(table.font, font_height, font_width,
                    (font_height * font_width) \div PIXELS_PER_BYTE)

\* Fnt.add_graphics: the exception raised if any, and self after the call.
\* zip(characters, graphics, strict=False) pairs the keys of the table in
\* order with the first graphics; self.font[character].graphic = graphic
\* changes the entry of that key, the k-th entry.
Fnt_add_graphics(self, im, font_height, font_width, padding) ==
    LET parsed == parse_graphics_from_image(im, font_height, font_width, padding)
        graphics == parsed.graphics
    IN  IF parsed.status # "ok" THEN [status |-> parsed.status, self |-> self]
        ELSE IF Len(self.font) > Len(graphics)
        THEN [status |-> "ValueError", self |-> self]
        ELSE [status |-> "ok",
              self |-> [self EXCEPT !.font =
                  [k \in 1..Len(self.font) |->
                      [key |-> self.font[k].key,
                       value |-> [self.font[k].value EXCEPT
                                      !.present = TRUE, !.pixels = graphics[k]]]]]]

\* Fnt.write_csv
Fnt_write_csv(self) == write_csv_character_table(self.font)

\* The (character, width) pair of every entry of a table, in order.
FntPairs(self) == [k \in 1..Len(self.font) |-> <<self.font[k].key, self.font[k].value.width>>]

-----------------------------------------------------------------------------
(* formats/mtx.py *)

MTX_LENGTH_WORD_SIZE == 4
MTX_CHARACTER_WORD_SIZE == 2
MTX32_IDENTIFIER == 8
MTX32_IDENTIFIER_WORD_SIZE == 4
MTX32_OFFSET_WORD_SIZE == 4
MTX64_IDENTIFIER == 16
MTX64_IDENTIFIER_WORD_SIZE == 8
MTX64_OFFSET_WORD_SIZE == 8

MtxFailed(status) ==
    [status |-> status, strings |-> <<>>, offset_word_size |-> 0,
     section_table_offset |-> 0, string_table_offset |-> 0, reads |-> 0]

RECURSIVE TrimZeros(_)
\* A little-endian word without its most significant zero bytes: two words
\* hold the same integer exactly when they are equal once trimmed.
TrimZeros(word) ==
    IF word # <<>> /\ word[Len(word)] = 0
    THEN TrimZeros(SubSeq(word, 1, Len(word) - 1))
    ELSE word

\* The choice of the offset width from the 4-byte identifier alone, without
\* reading the identifier again as 8 bytes (not the code's choice).
MtxSelectOffsetWordSizeNarrow(identifier_word, wide_word) ==
    IF TrimZeros(identifier_word) = TrimZeros(ToBytes(MTX32_IDENTIFIER, 4))
    THEN MTX32_OFFSET_WORD_SIZE
    ELSE IF TrimZeros(identifier_word) = TrimZeros(ToBytes(MTX64_IDENTIFIER, 4))
    THEN MTX64_OFFSET_WORD_SIZE
    ELSE 0

\* if identifier == MTX32_IDENTIFIER: ... elif identifier == int.from_bytes(
\* identifier_word + fp.read(4)) == MTX64_IDENTIFIER: ... else: raise
\* The offset word size selected, 0 when the format error is raised.
MtxSelectOffsetWordSize(identifier_word, wide_word) ==
    IF TrimZeros(identifier_word) = TrimZeros(ToBytes(MTX32_IDENTIFIER, 4))
    THEN MTX32_OFFSET_WORD_SIZE
    ELSE IF /\ TrimZeros(identifier_word) = TrimZeros(wide_word)
            /\ TrimZeros(wide_word) = TrimZeros(ToBytes(MTX64_IDENTIFIER, 8))
    THEN MTX64_OFFSET_WORD_SIZE
    ELSE 0

RECURSIVE MtxReadWords(_, _, _, _)
\* [read_bytes(word_size) for _ in range(count)] from position pos: the words
\* read, a read at the end of the data giving 0.
MtxReadWords(data, pos, word_size, count) ==
    IF count <= 0 THEN <<>>
    ELSE <<FromBytes(ReadAt(data, pos, word_size))>>
             \o MtxReadWords(data, pos + word_size, word_size, count - 1)

\* The position of the stream after count reads of word_size bytes from pos.
MtxAfterWords(data, pos, word_size, count) ==
    LET end == pos + word_size * (IF count <= 0 THEN 0 ELSE count)
    IN  IF end > Len(data) THEN (IF pos > Len(data) THEN pos ELSE Len(data)) ELSE end

RECURSIVE MtxReadStrings(_, _, _)
\* for current_string_offset, next_string_offset in pairwise(sections): the
\* strings are read one after the other from the position the stream is at.
MtxReadStrings(data, pos, sections) ==
    IF Len(sections) < 2 THEN <<>>
    ELSE LET count == (sections[2] - sections[1]) \div MTX_CHARACTER_WORD_SIZE
         IN  <<MtxReadWords(data, pos, MTX_CHARACTER_WORD_SIZE, count)>>
                 \o MtxReadStrings(
                        data,
                        MtxAfterWords(data, pos, MTX_CHARACTER_WORD_SIZE, count),
                        Tail(sections))

\* if fp.seek(0, SEEK_END) % mtx_length != 0 (for mtx_length # 0)
MtxSizeMismatch(size, mtx_length) == size % mtx_length # 0

\* A source that decodes as if every source could seek.
MtxUnseekableIgnored(fp) == FALSE

\* if not fp.seekable()
MtxUnseekable(fp) == ~fp.seekable

\* cls(strings): the table alone, no stream read.
Mtx_new(strings) == [MtxFailed("ok") EXCEPT !.strings = strings]

\* Mtx.decode of a stream fp = [seekable, data]; reads counts the calls of
\* fp.read it made.
Mtx_decode(fp) ==
    LET data == fp.data
        mtx_length == FromBytes(ReadAt(data, 0, MTX_LENGTH_WORD_SIZE))
        identifier_word == ReadAt(data, MTX_LENGTH_WORD_SIZE, MTX32_IDENTIFIER_WORD_SIZE)
        wide_word ==
            identifier_word
                \o ReadAt(data, MTX_LENGTH_WORD_SIZE + MTX32_IDENTIFIER_WORD_SIZE,
                          MTX64_IDENTIFIER_WORD_SIZE - MTX32_IDENTIFIER_WORD_SIZE)
        offset_word_size == MtxSelectOffsetWordSize(identifier_word, wide_word)
        start == MTX_LENGTH_WORD_SIZE
                     + (IF offset_word_size = MTX32_OFFSET_WORD_SIZE
                        THEN MTX32_IDENTIFIER_WORD_SIZE ELSE MTX64_IDENTIFIER_WORD_SIZE)
        section_table_offset == FromBytes(ReadAt(data, start, offset_word_size))
        string_table_offset ==
            FromBytes(ReadAt(data, start + offset_word_size, offset_word_size))
        count == ((string_table_offset - section_table_offset) \div offset_word_size) - 1
        sections == <<string_table_offset>>
                        \o MtxReadWords(data, start + 2 * offset_word_size,
                                        offset_word_size, count)
                        \o <<mtx_length>>
        strings_at == MtxAfterWords(data, start + 2 * offset_word_size,
                                    offset_word_size, count)
        strings == MtxReadStrings(data, strings_at, sections)
        \* The calls of fp.read for the identifier: a second one when the
        \* first 4 bytes are not the identifier of 4-byte offsets.
        probes == IF offset_word_size = MTX32_OFFSET_WORD_SIZE THEN 1 ELSE 2
    IN  IF MtxUnseekable(fp) THEN MtxFailed("UnsupportedOperation")
        ELSE IF mtx_length = 0
        THEN [MtxFailed("ZeroDivisionError") EXCEPT !.reads = 1]
        ELSE IF MtxSizeMismatch(Len(data), mtx_length)
        THEN [MtxFailed("FileFormatError") EXCEPT !.reads = 1]
        ELSE IF offset_word_size = 0
        THEN [MtxFailed("FileFormatError") EXCEPT !.reads = 1 + probes]
        ELSE [status |-> "ok", strings |-> strings,
              offset_word_size |-> offset_word_size,
              section_table_offset |-> section_table_offset,
              string_table_offset |-> string_table_offset,
              reads |-> 1 + probes + 2 + (IF count > 0 THEN count ELSE 0)
                            + Len(Concat(strings))]

RECURSIVE MtxStringOffsetsInValues(_, _)
\* Offsets that advance by the values of a string, not by its bytes (not the
\* code's offsets).
MtxStringOffsetsInValues(strings, mtx_length) ==
    IF strings = <<>> THEN <<>>
    ELSE <<mtx_length>>
             \o MtxStringOffsetsInValues(Tail(strings),
                    mtx_length + Len(Head(strings)))

RECURSIVE MtxStringOffsets(_, _)
\* for string_length in string_lengths: string_offsets.append(mtx_length); ...
MtxStringOffsets(strings, mtx_length) ==
    IF strings = <<>> THEN <<>>
    ELSE <<mtx_length>>
             \o MtxStringOffsets(Tail(strings),
                    mtx_length + Len(Head(strings)) * MTX_CHARACTER_WORD_SIZE)

\* Mtx.encode: the bytes written for a table whose values fit their words.
Mtx_encode(strings, offset_size) ==
    LET offset_word_size == IF offset_size = 64 THEN MTX64_OFFSET_WORD_SIZE
                            ELSE MTX32_OFFSET_WORD_SIZE
        offset_identifier == IF offset_size = 64 THEN MTX64_IDENTIFIER
                             ELSE MTX32_IDENTIFIER
        header_length == MTX_LENGTH_WORD_SIZE + offset_word_size + offset_word_size
        first == header_length + offset_word_size * Len(strings)
        string_offsets == MtxStringOffsets(strings, first)
        mtx_length == first + MTX_CHARACTER_WORD_SIZE * Len(Concat(strings))
    IN  ToBytes(mtx_length, MTX_LENGTH_WORD_SIZE)
            \o ToBytes(offset_identifier, offset_word_size)
            \o ToBytes(header_length, offset_word_size)
            \o Concat([k \in 1..Len(string_offsets) |->
                          ToBytes(string_offsets[k], offset_word_size)])
            \o Concat([k \in 1..Len(strings) |->
                          Concat([j \in 1..Len(strings[k]) |->
                                     ToBytes(strings[k][j], MTX_CHARACTER_WORD_SIZE)])])

\* font: BaseCharacterTable, a Fpd or a Fnt table.
FpdFont(entries) ==
    [type |-> "fpd", entries |-> entries, character_list |-> <<>>]

FntFont(self) ==
    [type |-> "fnt", entries |-> <<>>, character_list |-> self.character_list]

\* font[character]: Fpd.__getitem__ or Fnt.__getitem__.
Font_getitem(font, index) ==
    IF font.type = "fpd"
    THEN LET found == Fpd_getitem(font.entries, index)
         IN  [status |-> found.status, character |-> found.value.character]
    ELSE Fnt_getitem(font, index)

\* etree.Element("arrow"): an element without text, its tail empty.
ArrowElement == [tag |-> "arrow", tail |-> <<>>]

\* etree.SubElement(sheet, "text"): an element without text or children.
TextElement == [tag |-> "text", text |-> <<>>, children |-> <<>>]

\* The text "0xF883" as code points.
Text0xF883 == <<48, 120, 70, 56, 56, 51>>

\* The match statement with every code that is not an arrow, the stop code
\* included, written to the buffer (not the code's match).
MtxMatchCharacterNoStop(font, character) ==
    IF character = 63507 THEN [status |-> "ok", do |-> "arrow", text |-> <<>>]
    ELSE IF character = 63619 THEN [status |-> "ok", do |-> "write", text |-> Text0xF883]
    ELSE IF character = 65533 THEN [status |-> "ok", do |-> "write", text |-> <<10>>]
    ELSE IF character = 65535 THEN [status |-> "ok", do |-> "write", text |-> <<>>]
    ELSE LET found == Font_getitem(font, character)
         IN  [status |-> found.status, do |-> "write", text |-> found.character]

\* match character: case 0xF813 / 0xF883 / 0xFFFD / 0xFFFF / case _
MtxMatchCharacter(font, character) ==
    IF character = 63507 THEN [status |-> "ok", do |-> "arrow", text |-> <<>>]
    ELSE IF character = 63619 THEN [status |-> "ok", do |-> "write", text |-> Text0xF883]
    ELSE IF character = 65533 THEN [status |-> "ok", do |-> "write", text |-> <<10>>]
    ELSE IF character = 65535 THEN [status |-> "ok", do |-> "break", text |-> <<>>]
    ELSE LET found == Font_getitem(font, character)
         IN  [status |-> found.status, do |-> "write", text |-> found.character]

RECURSIVE MtxRenderFrom(_, _, _, _)
\* for character in string: ... ; dialog.text = str_buf.getvalue()
\* The arrows are appended to dialog as the loop meets them; str_buf becomes
\* the text of dialog when the loop has ended.
MtxRenderFrom(font, string, str_buf, dialog) ==
    IF string = <<>>
    THEN [status |-> "ok", element |-> [dialog EXCEPT !.text = str_buf]]
    ELSE LET matched == MtxMatchCharacter(font, Head(string))
         IN  IF matched.status # "ok"
             THEN [status |-> matched.status, element |-> dialog]
             ELSE IF matched.do = "break"
             THEN [status |-> "ok", element |-> [dialog EXCEPT !.text = str_buf]]
             ELSE IF matched.do = "arrow"
             THEN MtxRenderFrom(font, Tail(string), str_buf,
                      [dialog EXCEPT !.children = Append(@, ArrowElement)])
             ELSE MtxRenderFrom(font, Tail(string), str_buf \o matched.text, dialog)

RECURSIVE MtxWriteXmlFrom(_, _, _)
\* for string in self.strings: the text elements of sheet so far.
MtxWriteXmlFrom(font, strings, sheet) ==
    IF strings = <<>> THEN [status |-> "ok", sheet |-> sheet]
    ELSE LET rendered == MtxRenderFrom(font, Head(strings), <<>>, TextElement)
         IN  IF rendered.status # "ok"
             THEN [status |-> rendered.status, sheet |-> <<>>]
             ELSE MtxWriteXmlFrom(font, Tail(strings), Append(sheet, rendered.element))

\* Mtx.write_xml: the children of the sheet element under the root mtx, or
\* the exception a font lookup raised.
Mtx_write_xml(strings, font) == MtxWriteXmlFrom(font, strings, <<>>)

-----------------------------------------------------------------------------
(* compression/lz11.py *)

LZ11_MAGIC_NUMBER == <<17>>

BITS_IN_BYTES == 8

\* The call of decompress_lz11 after it ended with an exception or returned.
\* position is in_fp.tell(), out the bytes in out_fp.
LzEnded(status, position, out, decompressed_size) ==
    [status |-> status, pc |-> "done", position |-> position, out |-> out,
     decompressed_size |-> decompressed_size, flag |-> 0, bit |-> 0]

\* The call of decompress_lz11 at the head of its while loop or inside the
\* for loop over the bits of a flag; bit counts the iterations done.
LzRunning(pc, position, out, decompressed_size, flag, bit) ==
    [status |-> "running", pc |-> pc, position |-> position, out |-> out,
     decompressed_size |-> decompressed_size, flag |-> flag, bit |-> bit]

\* in_fp.tell() after in_fp.read(n) at position: reads stop at the end.
LzAfterRead(data, position, n) == Min({position + n, Len(data)})

\* read_byte() at position: int.from_bytes of one byte, or of none at the end
\* of the input, which is 0.
LzReadByte(data, position) == FromBytes(ReadAt(data, position, 1))

\* The decompressed size the header declares: the 3 bytes after the magic
\* number, or the 4 bytes after them when they are zero.
LzDecompressedSize(data) ==
    LET decompressed_size_indicator == FromBytes(ReadAt(data, 1, 3))
    IN  IF decompressed_size_indicator /= 0
        THEN decompressed_size_indicator
        ELSE FromBytes(ReadAt(data, LzAfterRead(data, 1, 3), 4))

\* decompress_lz11 up to its while loop: the check of the two streams, the
\* magic number and the decompressed size.  out_fp is a new, empty stream.
LzOpen(in_fp, out_fp) ==
    IF ~in_fp.seekable \/ ~out_fp.readable
    THEN LzEnded("UnsupportedOperation", 0, <<>>, 0)
    ELSE IF ReadAt(in_fp.data, 0, 1) /= LZ11_MAGIC_NUMBER
    THEN LzEnded("DecompressionError", LzAfterRead(in_fp.data, 0, 1), <<>>, 0)
    ELSE LET wide == FromBytes(ReadAt(in_fp.data, 1, 3)) = 0
             after_indicator == LzAfterRead(in_fp.data, 1, 3)
             position == IF wide
                         THEN LzAfterRead(in_fp.data, after_indicator, 4)
                         ELSE after_indicator
         IN  LzRunning("while", position, <<>>,
                       LzDecompressedSize(in_fp.data), 0, 0)

\* The head of the while loop, and the check after it: one more flag byte
\* while out_fp.tell() is below the decompressed size, else the comparison of
\* the two sizes.
LzWhileStep(s, data) ==
    IF Len(s.out) < s.decompressed_size
    THEN LzRunning("for", LzAfterRead(data, s.position, 1), s.out,
                   s.decompressed_size, LzReadByte(data, s.position), 0)
    ELSE IF Len(s.out) /= s.decompressed_size
    THEN LzEnded("DecompressionError", s.position, s.out, s.decompressed_size)
    ELSE LzEnded("ok", s.position, s.out, s.decompressed_size)

\* The count and the displacement of a back-reference whose first byte is
\* at position, and in_fp.tell() after reading them.
LzReference(data, position) ==
    LET first == LzReadByte(data, position)
        p1 == LzAfterRead(data, position, 1)
        p2 == LzAfterRead(data, p1, 1)
        p3 == LzAfterRead(data, p2, 1)
        indicator == first \div 16
        \* the byte whose low nibble is the high part of disp, and where the
        \* low part of disp is read
        last == IF indicator = 0 THEN [byte |-> LzReadByte(data, p1), at |-> p2]
                ELSE IF indicator = 1
                THEN [byte |-> LzReadByte(data, p2), at |-> p3]
                ELSE [byte |-> first, at |-> p1]
        count == IF indicator = 0
                 THEN first * 16 + (last.byte \div 16) + 17
                 ELSE IF indicator = 1
                 THEN (first % 16) * 4096 + LzReadByte(data, p1) * 16
                          + (last.byte \div 16) + 273
                 ELSE indicator + 1
    IN  [count |-> count,
         disp |-> (last.byte % 16) * 256 + LzReadByte(data, last.at) + 1,
         position |-> LzAfterRead(data, last.at, 1)]

RECURSIVE LzCopy(_, _, _, _)
\* The loop that repeats count bytes from disp bytes before the end of
\* out_fp.  A seek to before the start of the stream is an OSError of a
\* file and position 0 of a BytesIO; a read at the end of an empty stream
\* gives no byte.  A long loop is taken as its first 16 iterations followed
\* by the others; the bytes written so far are named by a bound variable,
\* which holds them as a value that is computed once.
LzCopy(out, disp, count, out_fp) ==
    IF count = 0 THEN [status |-> "ok", out |-> out]
    ELSE IF count > 16
    THEN CHOOSE copied \in
             {IF first.status /= "ok" THEN first
              ELSE LzCopy(first.out, disp, count - 16, out_fp) :
                  first \in {LzCopy(out, disp, 16, out_fp)}} : TRUE
    ELSE IF disp > Len(out) /\ out_fp.kind = "file"
    THEN [status |-> "OSError", out |-> out]
    ELSE CHOOSE copied \in
             {LzCopy(written, disp, count - 1, out_fp) :
                  written \in {out \o ReadAt(out, IF disp > Len(out) THEN 0
                                                   ELSE Len(out) - disp, 1)}} : TRUE

\* One iteration of the for loop over the bits of the flag: a byte copied
\* from the input or a back-reference, then the break when the decompressed
\* size is reached, else the shift of the flag.
LzForStep(s, data, out_fp) ==
    LET compressed == (s.flag \div 128) % 2 /= 0
        reference == LzReference(data, s.position)
        copied == LzCopy(s.out, reference.disp, reference.count, out_fp)
        position == IF compressed THEN reference.position
                    ELSE LzAfterRead(data, s.position, 1)
        out == IF compressed THEN copied.out
               ELSE s.out \o ReadAt(data, s.position, 1)
    IN  IF compressed /\ copied.status /= "ok"
        THEN LzEnded(copied.status, position, out, s.decompressed_size)
        ELSE IF Len(out) >= s.decompressed_size \/ s.bit + 1 = BITS_IN_BYTES
        THEN LzRunning("while", position, out, s.decompressed_size, 0, 0)
        ELSE LzRunning("for", position, out, s.decompressed_size,
                       s.flag * 2, s.bit + 1)

-----------------------------------------------------------------------------
(* One run works on one object *)

\* No object has been built yet: a run decodes or reads one file and works
\* on the object it got.
NothingStarted ==
    /\ fpd_input = None
    /\ fnt_input = None
    /\ mtx_input = None
    /\ fmp_input = None
    /\ bitmap = None
    /\ grid_input = None
    /\ lz_input = None

-----------------------------------------------------------------------------
(* Inputs of the fpd operations *)

\* 'A', a code point whose two bytes differ, and one outside the BMP.
FpdCodePoints == {65, 12354}
FpdWidths == {0, 1}

FpdRecords == {PackU16(c) \o <<w>> : c \in FpdCodePoints, w \in FpdWidths}

\* Whole tables, and tables followed by a partial record.
FpdBinaryInputs ==
    LET whole == {Concat(rs) : rs \in SeqsUpTo(FpdRecords, MaxEntries)}
    IN  whole \cup {w \o part : w \in whole, part \in {<<65>>, <<65, 0>>}}

\* Rows of a CSV: BMP characters, a character outside the BMP, a width that
\* does not fit a byte, a cell of two characters, a negative width ("-0x1")
\* and a width with a space before it and an underscore in it (" 0x1_f").
FpdCsvRows ==
    {<<<<65>>, Hex(0)>>, <<<<65>>, Hex(11)>>, <<<<12354>>, Hex(1)>>,
     <<<<128512>>, Hex(0)>>, <<<<66>>, Hex(256)>>, <<<<65, 66>>, Hex(0)>>,
     <<<<67>>, <<45, 48, 120, 49>>>>, <<<<12354>>, <<32, 48, 120, 49, 95, 102>>>>}

FpdCsvInputs ==
    {[header |-> FPD_CSV_HEADER, rows |-> rs] : rs \in SeqsUpTo(FpdCsvRows, MaxEntries)}
    \cup {[header |-> <<"code_point", "width">>, rows |-> <<<<<<65>>, Hex(0)>>>>],
          [header |-> FPD_CSV_HEADER, rows |-> <<<<<<65>>, <<122>>>>>>]}

-----------------------------------------------------------------------------
(* The fpd operations as actions *)

FpdInit ==
    /\ fpd_input = None
    /\ fpd = None
    /\ fpd_encoded = None
    /\ fpd_string = None
    /\ fpd_csv = None
    /\ fpd_reread = None

FpdDecode ==
    /\ NothingStarted
    /\ \E data \in FpdBinaryInputs :
        /\ fpd_input' = [status |-> "binary", data |-> data]
        /\ fpd' = Fpd_decode(data)
        /\ fpd_encoded' = None
        /\ fpd_string' = None
        /\ fpd_csv' = None
        /\ fpd_reread' = None
    /\ UNCHANGED not_fpd

FpdReadCsv ==
    /\ NothingStarted
    /\ \E csv \in FpdCsvInputs :
        /\ fpd_input' = [status |-> "csv", data |-> csv]
        /\ fpd' = Fpd_read_csv(csv)
        /\ fpd_encoded' = None
        /\ fpd_string' = None
        /\ fpd_csv' = None
        /\ fpd_reread' = None
    /\ UNCHANGED not_fpd

FpdEncode ==
    /\ fpd.status = "ok"
    /\ fpd_encoded = None
    /\ fpd_encoded' = Fpd_encode(fpd.entries)
    /\ UNCHANGED <<fpd_input, fpd, fpd_string, fpd_csv, fpd_reread>>
    /\ UNCHANGED not_fpd

FpdToString ==
    /\ fpd.status = "ok"
    /\ fpd_string = None
    /\ fpd_string' = [status |-> "ok", text |-> Fpd_str(fpd.entries)]
    /\ UNCHANGED <<fpd_input, fpd, fpd_encoded, fpd_csv, fpd_reread>>
    /\ UNCHANGED not_fpd

FpdWriteCsv ==
    /\ fpd.status = "ok"
    /\ fpd_csv = None
    /\ fpd_csv' = [status |-> "ok", csv |-> Fpd_write_csv(fpd.entries)]
    /\ UNCHANGED <<fpd_input, fpd, fpd_encoded, fpd_string, fpd_reread>>
    /\ UNCHANGED not_fpd

FpdRereadCsv ==
    /\ fpd_csv.status = "ok"
    /\ fpd_reread = None
    /\ fpd_reread' = Fpd_read_csv(fpd_csv.csv)
    /\ UNCHANGED <<fpd_input, fpd, fpd_encoded, fpd_string, fpd_csv>>
    /\ UNCHANGED not_fpd

FpdNext ==
    \/ FpdDecode
    \/ FpdReadCsv
    \/ FpdEncode
    \/ FpdToString
    \/ FpdWriteCsv
    \/ FpdRereadCsv

-----------------------------------------------------------------------------
(* Inputs of the fnt operations *)

FntVersions == {"PTE", "NDS", "GCIX", "GVRT", "PSP"}

\* The font sizes of the inputs, <<font_height, font_width>>: two bytes a glyph.
FntFontSizes == {<<2, 2>>}

\* Glyph blocks of a 2 x 2 font whose nibbles are 0 or 1.
FntGlyphs == {<<1, 16>>, <<17, 0>>}

FntCodePoints == {65, 12354}
FntWidths == {1, 2}

\* A record of a file without graphics, and one of a file with them.
FntPlainRecords ==
    {[code_point |-> c, width |-> w, glyph |-> <<>>] : c \in FntCodePoints, w \in FntWidths}
FntGlyphRecords ==
    {[code_point |-> c, width |-> w, glyph |-> g] :
        c \in FntCodePoints, w \in FntWidths, g \in FntGlyphs}

\* The trailer of each variant.
FntTrailer(version) ==
    CASE version = "GCIX" -> <<71, 67, 73, 88>>
      [] version = "GVRT" -> <<71, 86, 82, 84>>
      [] version = "PSP" -> FNT_PSP_IDENTIFIER
      [] OTHER -> <<>>

\* The bytes of a well-formed fnt file of a variant: the header, for NDS the
\* 32-byte sub-header (the identifier and zeros), the records (each followed
\* by its glyph block for NDS), the variant's trailer.
FntFile(version, size, records) ==
    FNT_MAGIC_NUMBER \o ToBytes(size[1], 4) \o ToBytes(size[2], 4)
        \o ToBytes(Len(records), 4)
        \o (IF version = "NDS"
            THEN FNT_NDS_IDENTIFIER
                 \o [k \in 1..(FNT_NDS_HEADER_LENGTH - FNT_NDS_IDENTIFIER_LENGTH) |-> 0]
            ELSE <<>>)
        \o Concat([k \in 1..Len(records) |->
                      PackU16(records[k].code_point) \o PackU16(records[k].width)
                          \o records[k].glyph])
        \o FntTrailer(version)

FntValidInputs ==
    {[status |-> "binary", valid |-> TRUE, seekable |-> TRUE, version |-> v,
      records |-> rs, data |-> FntFile(v, size, rs)] :
        v \in FntVersions \ {"NDS"}, size \in FntFontSizes,
        rs \in SeqsUpTo(FntPlainRecords, MaxEntries)}
    \cup
    {[status |-> "binary", valid |-> TRUE, seekable |-> TRUE, version |-> "NDS",
      records |-> rs, data |-> FntFile("NDS", size, rs)] :
        size \in FntFontSizes, rs \in SeqsUpTo(FntGlyphRecords, MaxEntries)}

\* Inputs that are no fnt file: a stream that cannot seek, a wrong magic
\* number, a byte too many, a cut header.
FntInvalidInputs ==
    LET rs == <<[code_point |-> 65, width |-> 1, glyph |-> <<>>]>>
        file == FntFile("PTE", <<2, 2>>, rs)
        bad(seekable, data) ==
            [status |-> "binary", valid |-> FALSE, seekable |-> seekable,
             version |-> "PTE", records |-> rs, data |-> data]
    IN  {bad(FALSE, file), bad(TRUE, <<70, 78, 84, 1>> \o SubSeq(file, 5, Len(file))),
         bad(TRUE, file \o <<0>>), bad(TRUE, SubSeq(file, 1, 12))}

\* A file of one record of every variant cut at every length, the empty
\* stream included, and the same file with a byte after it.
FntCutInputs ==
    LET plain == <<[code_point |-> 65, width |-> 1, glyph |-> <<>>]>>
        glyph == <<[code_point |-> 65, width |-> 1, glyph |-> <<1, 16>>]>>
        files == {[version |-> v, records |-> plain, data |-> FntFile(v, <<2, 2>>, plain)] :
                     v \in FntVersions \ {"NDS"}}
                 \cup {[version |-> "NDS", records |-> glyph,
                        data |-> FntFile("NDS", <<2, 2>>, glyph)]}
        cuts(f) == {SubSeq(f.data, 1, n) : n \in 0..(Len(f.data) - 1)}
                       \cup {f.data \o <<0>>}
    IN  UNION {{[status |-> "binary", valid |-> FALSE, seekable |-> TRUE,
                 version |-> f.version, records |-> f.records, data |-> data] :
                   data \in cuts(f)} : f \in files}

\* The same streams, unable to seek.
FntUnseekableInputs ==
    {[input EXCEPT !.seekable = FALSE, !.valid = FALSE] :
        input \in FntValidInputs \cup FntCutInputs}

\* Files that put the order of the probes to the test, and fonts of odd width.
\* An NDS file whose last four bytes, the width of its record and its glyph,
\* are GCIX; three plain records whose last 11 bytes are the PSP identifier;
\* NDS files of one record of a 2 x 3, a 1 x 3 and a 2 x 1 font, whose glyph
\* blocks have font_height * font_width // 2 bytes.
FntProbeInputs ==
    LET input(version, records, data) ==
            [status |-> "binary", valid |-> FALSE, seekable |-> TRUE,
             version |-> version, records |-> records, data |-> data]
        nds(size, records) == input("NDS", records, FntFile("NDS", size, records))
        record(width, glyph) == <<[code_point |-> 65, width |-> width, glyph |-> glyph]>>
    IN  {nds(<<2, 2>>, record(17223, <<73, 88>>)),
         input("PSP", <<>>,
               FNT_MAGIC_NUMBER \o ToBytes(2, 4) \o ToBytes(2, 4) \o ToBytes(3, 4)
                   \o <<65>> \o FNT_PSP_IDENTIFIER),
         nds(<<2, 3>>, record(1, <<1, 16, 17>>)),
         nds(<<1, 3>>, record(1, <<17>>)),
         nds(<<2, 1>>, record(1, <<1>>))}

\* Graphics of a 2 x 2 font, each with one pixel set.
FntImageGraphics ==
    <<<<<<TRUE, FALSE>>, <<FALSE, FALSE>>>>, <<<<FALSE, TRUE>>, <<FALSE, FALSE>>>>,
      <<<<FALSE, FALSE>>, <<TRUE, FALSE>>>>, <<<<FALSE, FALSE>>, <<FALSE, TRUE>>>>>>

\* The image of mode "1" of a grid of rows x cols cells, each a graphic of
\* 2 x 2 pixels inside padding pixels that are set, the cells in row-major
\* order.
FntImageOfGrid(rows, cols, cells, padding) ==
    LET graphic_height == 2 + 2 * padding
        graphic_width == 2 + 2 * padding
        pixel(y, x) ==
            LET row == y \div graphic_height
                col == x \div graphic_width
                in_y == (y % graphic_height) - padding
                in_x == (x % graphic_width) - padding
            IN  IF in_y \in 0..1 /\ in_x \in 0..1
                THEN cells[row * cols + col + 1][in_y + 1][in_x + 1]
                ELSE TRUE
    IN  [height |-> rows * graphic_height, width |-> cols * graphic_width,
         pixels |-> [y \in 1..(rows * graphic_height) |->
                        [x \in 1..(cols * graphic_width) |-> pixel(y - 1, x - 1)]]]

\* The images handed to add_graphics: grids of 0, 1, 2 and 4 graphics with a
\* padding of 0 and 1, and a grid with a row of pixels too many.
FntImageInputs ==
    LET grids == {<<0, 0>>, <<1, 1>>, <<1, 2>>, <<2, 1>>, <<2, 2>>}
        input(grid, padding) ==
            LET cells == SubSeq(FntImageGraphics, 1, grid[1] * grid[2])
            IN  [grid |-> TRUE, rows |-> grid[1], cols |-> grid[2], cells |-> cells,
                 padding |-> padding, size |-> <<2, 2>>,
                 im |-> FntImageOfGrid(grid[1], grid[2], cells, padding)]
        cut(whole) ==
            [whole EXCEPT !.grid = FALSE,
                          !.im = [height |-> whole.im.height + 1, width |-> whole.im.width,
                                  pixels |-> Append(whole.im.pixels,
                                                    [x \in 1..whole.im.width |-> FALSE])]]
    IN  {input(grid, padding) : grid \in grids, padding \in {0, 1}}
            \cup {cut(input(<<2, 2>>, 1))}

FntCsvRows ==
    {<<<<65>>, Hex(1)>>, <<<<65>>, Hex(2)>>, <<<<12354>>, Hex(11)>>,
     <<<<128512>>, Hex(0)>>}

FntCsvInputs ==
    {[status |-> "csv", header |-> CSV_TABLE_HEADER, rows |-> rs] :
        rs \in SeqsUpTo(FntCsvRows, MaxEntries)}
    \cup {[status |-> "csv", header |-> FPD_CSV_HEADER, rows |-> <<<<<<65>>, Hex(1)>>>>]}

-----------------------------------------------------------------------------
(* The fnt operations as actions *)

FntInit ==
    /\ fnt_input = None
    /\ fnt = None
    /\ fnt_encoded = None
    /\ fnt_string = None
    /\ fnt_csv = None
    /\ fnt_reread = None
    /\ fnt_image = None

FntDecode ==
    /\ NothingStarted
    /\ \E input \in FntValidInputs \cup FntInvalidInputs \cup FntCutInputs
                        \cup FntUnseekableInputs \cup FntProbeInputs :
        /\ fnt_input' = input
        /\ fnt' = Fnt_decode([seekable |-> input.seekable, data |-> input.data])
        /\ UNCHANGED <<fnt_encoded, fnt_string, fnt_csv, fnt_reread, fnt_image>>
    /\ UNCHANGED not_fnt

FntReadCsv ==
    /\ NothingStarted
    /\ \E input \in FntCsvInputs, size \in FntFontSizes :
        /\ fnt_input' = input
        /\ fnt' = Fnt_read_csv(input, size[1], size[2])
        /\ UNCHANGED <<fnt_encoded, fnt_string, fnt_csv, fnt_reread, fnt_image>>
    /\ UNCHANGED not_fnt

FntEncode ==
    /\ fnt.status = "ok"
    /\ fnt_encoded = None
    /\ \E version \in FntVersions :
        fnt_encoded' = [version |-> version, result |-> Fnt_encode(fnt, version),
                        status |-> "done"]
    /\ UNCHANGED <<fnt_input, fnt, fnt_string, fnt_csv, fnt_reread, fnt_image>>
    /\ UNCHANGED not_fnt

FntToString ==
    /\ fnt.status = "ok"
    /\ fnt_string = None
    /\ fnt_image = None
    /\ fnt_string' = [status |-> "ok", text |-> Fnt_str(fnt)]
    /\ UNCHANGED <<fnt_input, fnt, fnt_encoded, fnt_csv, fnt_reread, fnt_image>>
    /\ UNCHANGED not_fnt

FntWriteCsv ==
    /\ fnt.status = "ok"
    /\ fnt_csv = None
    /\ fnt_image = None
    /\ fnt_csv' = Fnt_write_csv(fnt)
    /\ UNCHANGED <<fnt_input, fnt, fnt_encoded, fnt_string, fnt_reread, fnt_image>>
    /\ UNCHANGED not_fnt

FntRereadCsv ==
    /\ fnt_csv.status = "ok"
    /\ fnt_reread = None
    /\ fnt_reread' = Fnt_read_csv(fnt_csv.csv, fnt.font_height, fnt.font_width)
    /\ UNCHANGED <<fnt_input, fnt, fnt_encoded, fnt_string, fnt_csv, fnt_image>>
    /\ UNCHANGED not_fnt

\* fnt.add_graphics(im, font_height=, font_width=, padding=) with the font
\* size of the table, as cli/create.py calls it between read_csv and encode:
\* the table is changed in place, and a run that adds graphics goes on with
\* encode.
FntAddGraphics ==
    /\ fnt.status = "ok"
    /\ fnt_image = None
    /\ fnt_encoded = None
    /\ fnt_string = None
    /\ fnt_csv = None
    /\ \E input \in FntImageInputs :
        LET added == Fnt_add_graphics(fnt, input.im, fnt.font_height, fnt.font_width,
                                      input.padding)
        IN  /\ fnt_image' = [status |-> added.status, input |-> input, before |-> fnt]
            /\ fnt' = added.self
    /\ UNCHANGED <<fnt_input, fnt_encoded, fnt_string, fnt_csv, fnt_reread>>
    /\ UNCHANGED not_fnt

FntNext ==
    \/ FntDecode
    \/ FntReadCsv
    \/ FntEncode
    \/ FntToString
    \/ FntWriteCsv
    \/ FntRereadCsv
    \/ FntAddGraphics

-----------------------------------------------------------------------------
(* Inputs of Mtx.decode *)

\* The strings of the tables: none, one word, two words with a byte each
\* that no offset of the files holds.
MtxStrings == {<<>>, <<65>>, <<66, 258>>}

MtxOffsetSizes == {32, 64}

\* data with its leading total_length field overwritten.
WithLengthField(data, field) ==
    ToBytes(field, MTX_LENGTH_WORD_SIZE)
        \o SubSeq(data, MTX_LENGTH_WORD_SIZE + 1, Len(data))

\* Length fields tried on a file of a given size: the size itself, 0, values
\* that divide the size, values that do not.
MtxLengthFields(size) == {size, 0, 1, 2, size \div 2, size + 2, 2 * size}

\* The indices of the strings handed to Mtx.write_xml: two indices of a
\* font and the four codes 0xF813, 0xF883, 0xFFFD, 0xFFFF.
XmlIndices == {0, 1, 63507, 63619, 65533, 65535}

\* Tables of one string of up to MaxIndices indices, and tables of up to
\* MaxStrings strings of at most one index.
MtxXmlTables ==
    ({<<string>> : string \in SeqsUpTo(XmlIndices, MaxIndices)}
        \cup SeqsUpTo(SeqsUpTo(XmlIndices, 1), MaxStrings)) \ {<<>>}

\* The fonts handed to Mtx.write_xml: a fpd of 'A', 'B' and a fnt of one
\* character, for which index 1 is out of range.
MtxFonts ==
    {FpdFont(Fpd_decode(<<65, 0, 0, 66, 0, 1>>).entries),
     FntFont(Fnt_decode([seekable |-> TRUE,
                         data |-> FntFile("PTE", <<2, 2>>,
                                      <<[code_point |-> 12354, width |-> 1,
                                         glyph |-> <<>>]>>)]))}

\* data with the bytes from position pos on overwritten by a word.
WithWordAt(data, pos, word) ==
    [k \in 1..Len(data) |->
        IF k > pos /\ k <= pos + Len(word) THEN word[k - pos] ELSE data[k]]

\* Values written over the low 4 bytes of the identifier field: the
\* identifier of 8-byte offsets and values that are no identifier.
MtxIdentifiers == {0, 9, 16, 24}

\* Values written over the section table offset of a file with 4-byte
\* offsets: offsets after the place of the table.
MtxSectionTableOffsets == {16, 20}

\* The tables built in memory: up to MaxStrings strings, none and empty
\* strings included, and a string of the least and the greatest 16-bit value.
MtxTables == SeqsUpTo(MtxStrings \cup {<<0, 65535>>}, MaxStrings)

\* Well-formed files of both offset sizes, the same with the length field,
\* the identifier or the section table offset replaced, such files written
\* twice in a row (a size twice the length field), the files of empty tables
\* and the files of the tables handed to Mtx.write_xml.
MtxInputs ==
    LET tables == SeqsUpTo(MtxStrings, MaxStrings) \ {<<>>}
        files32 == {Mtx_encode(strings, 32) : strings \in tables}
        files64 == {Mtx_encode(strings, 64) : strings \in tables}
        files == files32 \cup files64
        empty == {Mtx_encode(<<>>, offset_size) : offset_size \in MtxOffsetSizes}
        altered ==
            {WithWordAt(file, MTX_LENGTH_WORD_SIZE, ToBytes(identifier, 4)) :
                file \in files, identifier \in MtxIdentifiers}
            \cup {WithWordAt(file, MTX_LENGTH_WORD_SIZE + 4, ToBytes(1, 4)) :
                     file \in files64}
            \cup {WithWordAt(file, MTX_LENGTH_WORD_SIZE + 4, ToBytes(offset, 4)) :
                     file \in files32, offset \in MtxSectionTableOffsets}
        refielded == UNION {{WithLengthField(file, field) :
                                field \in MtxLengthFields(Len(file))} : file \in files}
    IN  {[status |-> "binary", seekable |-> TRUE, data |-> data] :
            data \in refielded \cup {file \o file : file \in files}
                         \cup empty \cup altered \cup {<<>>}}
        \cup {[status |-> "binary", seekable |-> FALSE, data |-> data] :
                 data \in files \cup refielded \cup {<<>>}}
        \cup {[status |-> "binary", seekable |-> TRUE, data |-> Mtx_encode(strings, 32)] :
                 strings \in MtxXmlTables}

-----------------------------------------------------------------------------
(* The mtx operations as actions *)

MtxInit ==
    /\ mtx_input = None
    /\ mtx = None
    /\ mtx_xml = None
    /\ mtx_encoded = None
    /\ mtx_redecoded = None

MtxDecode ==
    /\ NothingStarted
    /\ \E input \in MtxInputs :
        /\ mtx_input' = input
        /\ mtx' = Mtx_decode([seekable |-> input.seekable, data |-> input.data])
    /\ UNCHANGED <<mtx_xml, mtx_encoded, mtx_redecoded>>
    /\ UNCHANGED not_mtx

\* Mtx(strings): a table built in memory.
MtxNew ==
    /\ NothingStarted
    /\ \E strings \in MtxTables :
        /\ mtx_input' = [status |-> "table", strings |-> strings]
        /\ mtx' = Mtx_new(strings)
    /\ UNCHANGED <<mtx_xml, mtx_encoded, mtx_redecoded>>
    /\ UNCHANGED not_mtx

\* Mtx.decode(in_fp).write_xml(font).  write_xml and encode leave the table
\* as it is: a run goes on with one of them.
MtxWriteXml ==
    /\ mtx.status = "ok"
    /\ mtx_xml = None
    /\ mtx_encoded = None
    /\ \E font \in MtxFonts :
        mtx_xml' = [status |-> "done", font |-> font,
                    result |-> Mtx_write_xml(mtx.strings, font)]
    /\ UNCHANGED <<mtx_input, mtx, mtx_encoded, mtx_redecoded>>
    /\ UNCHANGED not_mtx

\* mtx.encode(fp, offset_size=...)
MtxEncode ==
    /\ mtx.status = "ok"
    /\ mtx_encoded = None
    /\ mtx_xml = None
    /\ \E offset_size \in MtxOffsetSizes :
        mtx_encoded' = [status |-> "ok", offset_size |-> offset_size,
                        bytes |-> Mtx_encode(mtx.strings, offset_size)]
    /\ UNCHANGED <<mtx_input, mtx, mtx_xml, mtx_redecoded>>
    /\ UNCHANGED not_mtx

\* Mtx.decode of the stream Mtx.encode wrote.
MtxRedecode ==
    /\ mtx_encoded.status = "ok"
    /\ mtx_redecoded = None
    /\ mtx_redecoded' = Mtx_decode([seekable |-> TRUE, data |-> mtx_encoded.bytes])
    /\ UNCHANGED <<mtx_input, mtx, mtx_xml, mtx_encoded>>
    /\ UNCHANGED not_mtx

MtxNext ==
    \/ MtxDecode
    \/ MtxNew
    \/ MtxWriteXml
    \/ MtxEncode
    \/ MtxRedecode

-----------------------------------------------------------------------------
(* Inputs of Fmp.decode *)

\* The font sizes of the format, 8 and 14 pixels, and a size of 2 pixels
\* whose cell is 2 bytes.
FmpFontSizes == {2, 8, 14}

\* A byte string of a given length: pixels on and off in both nibbles.
FmpPattern(length) == [k \in 1..length |-> <<1, 16, 0, 17, 240, 15>>[(k % 6) + 1]]

\* Byte strings of every length up to MaxFmpBytes, and every short string of
\* bytes with the nibbles 0 and 1.
FmpDatas ==
    {FmpPattern(length) : length \in 0..MaxFmpBytes}
        \cup SeqsUpTo({0, 1, 16, 17}, MaxCells + 1)

-----------------------------------------------------------------------------
(* The fmp operations as actions *)

FmpInit ==
    /\ fmp_input = None
    /\ fmp = None
    /\ fmp_encoded = None

FmpDecode ==
    /\ NothingStarted
    /\ \E data \in FmpDatas, font_size \in FmpFontSizes :
        /\ fmp_input' = [status |-> "binary", data |-> data, font_size |-> font_size]
        /\ fmp' = Fmp_decode(data, font_size)
    /\ UNCHANGED fmp_encoded
    /\ UNCHANGED not_fmp

FmpEncode ==
    /\ fmp.status = "ok"
    /\ fmp_encoded = None
    /\ fmp_encoded' = Fmp_encode(fmp.font)
    /\ UNCHANGED <<fmp_input, fmp>>
    /\ UNCHANGED not_fmp

FmpNext ==
    \/ FmpDecode
    \/ FmpEncode

-----------------------------------------------------------------------------
(* The graphic operations as actions *)

\* The widths of a bitmap in pixels: whole bytes a row.
GraphicWidths == {2, 4}

\* The matrices of 1..MaxRows rows of a width.
Graphics ==
    UNION {[1..rows -> [1..width -> BOOLEAN]] :
              rows \in 1..MaxRows, width \in GraphicWidths}

\* The byte strings handed to parse_4bpp_graphic: up to MaxGraphicBytes
\* bytes whose nibbles are 0, 1 and 15.
GraphicDatas == SeqsUpTo({0, 1, 16, 17, 240, 255}, MaxGraphicBytes)

\* The bytes of a row.
GraphicByteWidths == {1, 2, 3}

GraphicInit ==
    /\ bitmap = None
    /\ bitmap_packed = None
    /\ bitmap_parsed = None

GraphicChoose ==
    /\ NothingStarted
    /\ \E pixels \in Graphics : bitmap' = [status |-> "ok", pixels |-> pixels]
    /\ UNCHANGED <<bitmap_packed, bitmap_parsed>>
    /\ UNCHANGED not_graphic

\* parse_4bpp_graphic(graphic_data, graphic_width) of bytes from a file.
GraphicParseBytes ==
    /\ NothingStarted
    /\ \E graphic_data \in GraphicDatas, graphic_width \in GraphicByteWidths :
        /\ bitmap' = [status |-> "bytes", graphic_data |-> graphic_data,
                      graphic_width |-> graphic_width]
        /\ bitmap_parsed' = parse_4bpp_graphic(graphic_data, graphic_width)
    /\ UNCHANGED bitmap_packed
    /\ UNCHANGED not_graphic

GraphicWrite ==
    /\ bitmap.status = "ok"
    /\ bitmap_packed = None
    /\ bitmap_packed' = write_4bpp_graphic(Flatten(bitmap.pixels))
    /\ UNCHANGED <<bitmap, bitmap_parsed>>
    /\ UNCHANGED not_graphic

GraphicParse ==
    /\ bitmap_packed.status = "ok"
    /\ bitmap_parsed = None
    /\ bitmap_parsed' =
           parse_4bpp_graphic(bitmap_packed.bytes,
                              Len(bitmap.pixels[1]) \div PIXELS_PER_BYTE)
    /\ UNCHANGED <<bitmap, bitmap_packed>>
    /\ UNCHANGED not_graphic

GraphicNext ==
    \/ GraphicChoose
    \/ GraphicParseBytes
    \/ GraphicWrite
    \/ GraphicParse

-----------------------------------------------------------------------------
(* The grid choosers and the image exports as actions *)

\* The numbers handed to the choosers: some that are no natural number, and
\* the numbers of graphics of a table.
GridNumbers == (-3)..MaxGlyphs

\* A table of n graphics of a font of 2 x 2 pixels, all blank.
GridFont(n) == [k \in 1..n |-> <<<<FALSE, FALSE>>, <<FALSE, FALSE>>>>]

GridPaddings == {0, 1}
GridOrientations == {"portrait", "landscape"}
GridMaxWidths == {2, 32}

GridInit ==
    /\ grid_input = None
    /\ grid_result = None

\* find_medium_divisors(n)
GridFindMediumDivisors ==
    /\ NothingStarted
    /\ \E n \in GridNumbers :
        /\ grid_input' = [status |-> "medium", n |-> n]
        /\ grid_result' = find_medium_divisors(n)
    /\ UNCHANGED not_grid

\* find_largest_proper_divisor_pair(n)
GridFindLargestProperDivisorPair ==
    /\ NothingStarted
    /\ \E n \in GridNumbers :
        /\ grid_input' = [status |-> "proper", n |-> n]
        /\ grid_result' = find_largest_proper_divisor_pair(n, AnyNumber)
    /\ UNCHANGED not_grid

\* write_graphics_to_image of n graphics, as Fnt.write_image calls it
GridWriteGraphicsToImage ==
    /\ NothingStarted
    /\ \E n \in 0..MaxGlyphs, padding \in GridPaddings, orientation \in GridOrientations :
        /\ grid_input' = [status |-> "graphics", n |-> n, padding |-> padding,
                          orientation |-> orientation]
        /\ grid_result' = write_graphics_to_image(GridFont(n), 2, 2, padding, orientation)
    /\ UNCHANGED not_grid

\* Fmp.to_image of a table of n graphics of font size 2
GridFmpToImage ==
    /\ NothingStarted
    /\ \E n \in 0..MaxGlyphs, padding \in GridPaddings, max_width \in GridMaxWidths :
        /\ grid_input' = [status |-> "fmp", n |-> n, padding |-> padding,
                          max_width |-> max_width]
        /\ grid_result' = Fmp_to_image([status |-> "ok", font |-> GridFont(n), font_size |-> 2],
                                max_width, padding)
    /\ UNCHANGED not_grid

GridNext ==
    \/ GridFindMediumDivisors
    \/ GridFindLargestProperDivisorPair
    \/ GridWriteGraphicsToImage
    \/ GridFmpToImage

-----------------------------------------------------------------------------
(* Inputs of decompress_lz11 *)

\* The header of an LZ11 stream: the magic number and the decompressed size
\* in 3 bytes, or 3 zero bytes and the size in 4 bytes.
LzHeader(size, wide) ==
    LZ11_MAGIC_NUMBER
        \o (IF wide THEN <<0, 0, 0>> \o ToBytes(size, 4) ELSE ToBytes(size, 3))

\* The bytes after the header: the flags 0x00, 0x20, 0x40, 0x41 and 0x80,
\* the letters '@' and 'A', and the first bytes 0x00, 0x20, 0x40, 0x41 and
\* 0x80 of a back-reference.
LzBodyBytes == {0, 32, 64, 65, 128}

\* Streams picked by hand: no byte, another magic number, the magic number
\* alone, nine bytes under two flags, back-references of each of the three
\* lengths that end on the declared size, one that passes it, one that
\* starts before the first byte written, and one that is cut.
LzPickedDatas ==
    {<<>>,
     <<16, 1, 0, 0, 0, 65>>,
     <<17>>,
     <<17, 0, 0, 0>>,
     LzHeader(9, FALSE) \o <<0, 65, 66, 67, 68, 69, 70, 71, 72, 0, 73>>,
     LzHeader(4, FALSE) \o <<64, 65, 32, 0>>,
     LzHeader(18, FALSE) \o <<64, 65, 0, 0, 0>>,
     LzHeader(274, FALSE) \o <<64, 65, 16, 0, 0, 0>>,
     LzHeader(274, TRUE) \o <<64, 65, 16, 0, 0, 0>>,
     LzHeader(3, FALSE) \o <<64, 65, 32, 0>>,
     LzHeader(4, FALSE) \o <<64, 65, 32, 5>>,
     LzHeader(3, FALSE) \o <<64, 65>>}

\* Every header of a size up to MaxDeclared followed by up to MaxBody bytes.
\* A size of 0 is written in 4 bytes: 3 zero bytes announce the wide size.
LzDatas ==
    LzPickedDatas
        \cup {LzHeader(size, FALSE) \o body :
                 size \in 1..MaxDeclared, body \in SeqsUpTo(LzBodyBytes, MaxBody)}
        \cup {LzHeader(size, TRUE) \o body :
                 size \in 0..MaxDeclared, body \in SeqsUpTo(LzBodyBytes, MaxBody)}

\* The output streams: an io.BytesIO, a file opened "wb+", a file opened "wb".
LzBytesIO == [kind |-> "BytesIO", readable |-> TRUE]
LzFile == [kind |-> "file", readable |-> TRUE]
LzWriteOnlyFile == [kind |-> "file", readable |-> FALSE]

\* The calls: every stream into the two readable outputs, and the streams
\* picked by hand also from a source that cannot seek or into an output that
\* cannot be read.
LzCalls ==
    {[in_fp |-> [data |-> data, seekable |-> TRUE], out_fp |-> out_fp] :
        data \in LzDatas, out_fp \in {LzBytesIO, LzFile}}
        \cup {[in_fp |-> [data |-> data, seekable |-> seekable],
               out_fp |-> out_fp] :
                 data \in LzPickedDatas, seekable \in BOOLEAN,
                 out_fp \in {LzBytesIO, LzFile, LzWriteOnlyFile}}

-----------------------------------------------------------------------------
(* decompress_lz11 as actions *)

LzInit ==
    /\ lz_input = None
    /\ lz = None

\* decompress_lz11 is called and reads the header.
LzStart ==
    /\ NothingStarted
    /\ \E call \in LzCalls :
        /\ lz_input' = [status |-> "streams", in_fp |-> call.in_fp,
                        out_fp |-> call.out_fp]
        /\ lz' = LzOpen(call.in_fp, call.out_fp)
    /\ UNCHANGED not_lz

\* The head of the while loop: the next flag, or the end of the call.
LzWhile ==
    /\ lz.status = "running"
    /\ lz.pc = "while"
    /\ lz' = LzWhileStep(lz, lz_input.in_fp.data)
    /\ UNCHANGED lz_input
    /\ UNCHANGED not_lz

\* One bit of the flag.
LzFor ==
    /\ lz.status = "running"
    /\ lz.pc = "for"
    /\ lz' = LzForStep(lz, lz_input.in_fp.data, lz_input.out_fp)
    /\ UNCHANGED lz_input
    /\ UNCHANGED not_lz

LzNext ==
    \/ LzStart
    \/ LzWhile
    \/ LzFor

-----------------------------------------------------------------------------
(* Specifications *)

Init ==
    FpdInit /\ FntInit /\ MtxInit /\ FmpInit /\ GraphicInit /\ GridInit /\ LzInit

Next == FpdNext \/ FntNext \/ MtxNext \/ FmpNext \/ GraphicNext \/ GridNext \/ LzNext

Spec == Init /\ [][Next]_vars

\* The fpd operations alone.
SpecFpd == Init /\ [][FpdNext]_vars

\* The fnt operations alone.
SpecFnt == Init /\ [][FntNext]_vars

\* The mtx operations alone.
SpecMtx == Init /\ [][MtxNext]_vars

\* The fmp operations alone.
SpecFmp == Init /\ [][FmpNext]_vars

\* The graphic operations alone.
SpecGraphic == Init /\ [][GraphicNext]_vars

\* The two places that pack and unpack pixels: fmp and the graphic functions.
SpecFmpGraphic == Init /\ [][FmpNext \/ GraphicNext]_vars

\* The two decoders of headerless tables, fpd and fmp.
SpecFpdFmp == Init /\ [][FpdNext \/ FmpNext]_vars

\* The two character tables, fpd and fnt.
SpecFpdFnt == Init /\ [][FpdNext \/ FntNext]_vars

\* The two decoders that seek in their source, on their own.
SpecFntMtxDecode == Init /\ [][FntDecode \/ MtxDecode]_vars

\* The grid choosers and the image exports alone.
SpecGrid == Init /\ [][GridNext]_vars

\* The decompressor alone.
SpecLz == Init /\ [][LzNext]_vars

\* The decompressor as the interpreter runs it: a call that can take a step
\* of its while loop or of its for loop takes it.
SpecLzFair == Init /\ [][LzNext]_vars /\ WF_vars(LzWhile) /\ WF_vars(LzFor)

-----------------------------------------------------------------------------
(* Properties of the fpd character table *)

\* The code point stored in record i (0-based) of a binary fpd input.
RecordCodePoint(data, i) ==
    data[FPD_ENTRY_LENGTH * i + 1] + 256 * data[FPD_ENTRY_LENGTH * i + 2]

\* Fpd.encode has run on a table decoded from whole records.
FpdRoundTripDone ==
    /\ fpd_input.status = "binary"
    /\ fpd.status = "ok"
    /\ fpd_encoded.status # "none"

\* C1: for every byte string whose length is a multiple of 3, Fpd.encode of
\* the table Fpd.decode returns writes exactly the input bytes, a repeated
\* character being written with the code point and width of its own record.
C1_EncodeDecodeIsInput ==
    FpdRoundTripDone =>
        fpd_encoded.status = "ok" /\ fpd_encoded.bytes = fpd_input.data

\* C4: decoding N whole records gives a table with exactly the indices
\* 0..N-1, index i resolving to the character whose code point is the
\* little-endian u16 of record i, a repeated character included, and
\* str(table) is these N characters in index order; the bytes 41 00 00 give
\* one entry, 'A' of width 0.
C4_DecodeIndexesEveryRecord ==
    (fpd_input.status = "binary" /\ Len(fpd_input.data) % FPD_ENTRY_LENGTH = 0) =>
        LET data == fpd_input.data
            n == Len(data) \div FPD_ENTRY_LENGTH
        IN  /\ fpd.status = "ok"
            /\ Len(fpd.entries) = n
            /\ \A i \in 0..(n - 1) :
                   LET got == Fpd_getitem(fpd.entries, i)
                   IN  /\ got.status = "ok"
                       /\ got.value.character = <<RecordCodePoint(data, i)>>
            /\ Fpd_getitem(fpd.entries, n).status = "KeyError"
            /\ fpd_string.status = "ok" =>
                   /\ Len(fpd_string.text) = n
                   /\ \A i \in 0..(n - 1) :
                          fpd_string.text[i + 1] = RecordCodePoint(data, i)
            /\ data = <<65, 0, 0>> =>
                   fpd.entries = <<FpdCharacter(<<65>>, 0)>>

\* A table of three records, the third repeating the first, turned to a string.
C4_Witness ==
    /\ fpd_input.status = "binary"
    /\ fpd.status = "ok"
    /\ Len(fpd.entries) = 3
    /\ RecordCodePoint(fpd_input.data, 0) = RecordCodePoint(fpd_input.data, 2)
    /\ RecordCodePoint(fpd_input.data, 1) = 12354
    /\ fpd_string.status = "ok"

\* The number of aliases among the entries of a table.
AliasCount(entries) == Cardinality({k \in 1..Len(entries) : entries[k].t = "int"})

\* Every alias refers to an earlier index, and every index resolves to a
\* character within as many hops as there are aliases.
AliasesPointBack(entries) ==
    /\ \A k \in 1..Len(entries) :
           entries[k].t = "int" =>
               entries[k].target >= 0 /\ entries[k].target < k - 1
    /\ \A i \in 0..(Len(entries) - 1) :
           LET got == Fpd_getitem(entries, i)
           IN  /\ got.status = "ok"
               /\ got.value.t = "chr"
               /\ got.hops <= AliasCount(entries)
               /\ got.hops <= i

\* C6: in every table built by Fpd.decode or Fpd.read_csv each alias at index
\* i refers to a present index j < i, so resolving any index reaches a
\* character entry within N hops for N aliases and never loops.
C6_AliasChainsEnd ==
    /\ fpd.status = "ok" => AliasesPointBack(fpd.entries)
    /\ fpd_reread.status = "ok" => AliasesPointBack(fpd_reread.entries)

\* A table holding a chain of two aliases: the third occurrence of a
\* character resolves in two hops.
C6_Witness ==
    /\ fpd.status = "ok"
    /\ Len(fpd.entries) = 3
    /\ fpd.entries[2].t = "int"
    /\ fpd.entries[3].t = "int"
    /\ Fpd_getitem(fpd.entries, 2).hops = 2

\* C9: for every Fpd table, Fpd.read_csv of what Fpd.write_csv wrote has the
\* same number of indices and the same (character, width) pair at each index.
C9_FpdCsvRoundTrip ==
    fpd_reread.status # "none" =>
        /\ fpd_reread.status = "ok"
        /\ Len(fpd_reread.entries) = Len(fpd.entries)
        /\ FpdPairs(fpd_reread.entries) = FpdPairs(fpd.entries)

\* A table with a repeated character and a width above 9 written and reread.
C9_Witness ==
    /\ fpd_reread.status = "ok"
    /\ Len(fpd.entries) = 3
    /\ \E k \in 1..3 : fpd.entries[k].t = "int"
    /\ \E k \in 1..3 : fpd.entries[k].width = 11

-----------------------------------------------------------------------------
(* Properties of the fnt character table *)

\* Fnt.decode has been given a well-formed file.
FntValidDecoded == fnt_input.status = "binary" /\ fnt_input.valid

\* C2: for every valid fnt file, Fnt.encode of the table Fnt.decode returns,
\* with the version of the file's trailer variant, writes exactly the input
\* bytes: the count is unchanged and a record repeating an earlier character
\* is written again at its position.
C2_FntEncodeDecodeIsInput ==
    FntValidDecoded =>
        /\ fnt.status = "ok"
        /\ (fnt_encoded.status = "done" /\ fnt_encoded.version = fnt_input.version) =>
               /\ fnt_encoded.result.status = "ok"
               /\ fnt_encoded.result.bytes = fnt_input.data

\* C5: for a table decoded from a file of N records, fnt[i] is the character
\* of record i for every i in 0..N-1 and str(fnt) has exactly the N
\* characters in record order, repeated characters included.
C5_FntIndexesEveryRecord ==
    FntValidDecoded =>
        LET n == Len(fnt_input.records)
        IN  /\ fnt.status = "ok"
            /\ \A i \in 0..(n - 1) :
                   LET got == Fnt_getitem(fnt, i)
                   IN  /\ got.status = "ok"
                       /\ got.character = <<fnt_input.records[i + 1].code_point>>
            /\ fnt_string.status = "ok" =>
                   fnt_string.text = [k \in 1..n |-> fnt_input.records[k].code_point]

\* Every character of a table is one code point of the BMP.
FpdAllBmp(entries) ==
    \A k \in 1..Len(entries) :
        entries[k].t = "chr" =>
            Len(entries[k].character) = 1 /\ FitsU16(entries[k].character[1])
FntAllBmp(font) ==
    \A k \in 1..Len(font) : Len(font[k].key) = 1 /\ FitsU16(font[k].key[1])

\* C7: Fpd.encode and Fnt.encode raise the encode error naming the character
\* when the table holds a character above U+FFFF, and succeed for every table
\* decode or read_csv builds whose characters are all in U+0000..U+FFFF.
C7_EncodeFailsOnlyOutsideBmp ==
    /\ fpd_encoded.status # "none" =>
           IF FpdAllBmp(fpd.entries) THEN fpd_encoded.status = "ok"
           ELSE /\ fpd_encoded.status = "FormatError"
                /\ ~FitsU16(fpd_encoded.failed[1])
    /\ fnt_encoded.status = "done" =>
           IF FntAllBmp(fnt.font) THEN fnt_encoded.result.status = "ok"
           ELSE /\ fnt_encoded.result.status = "FileFormatError"
                /\ ~FitsU16(fnt_encoded.result.failed[1])

\* C8: for every Fnt table, Fnt.read_csv of what Fnt.write_csv wrote has the
\* same ordered (character, width) pairs, each width read back being the
\* integer that was written.
C8_FntCsvRoundTrip ==
    (fnt.status = "ok" /\ fnt_csv.status # "none") =>
        /\ fnt_csv.status = "ok"
        /\ fnt_reread.status # "none" =>
               /\ fnt_reread.status = "ok"
               /\ FntPairs(fnt_reread) = FntPairs(fnt)

\* Fnt.encode has written the table with glyph blocks: the version is NDS,
\* or PTE with an entry that has a graphic.
FntEmbeddingEncode ==
    /\ fnt.status = "ok"
    /\ fnt_encoded.status = "done"
    /\ fnt_encoded.result.status = "ok"
    /\ \/ fnt_encoded.version = "NDS"
       \/ fnt_encoded.version = "PTE" /\ \E k \in 1..Len(fnt.font) :
                                             fnt.font[k].value.present

\* The bytes of a real glyph: font_height * font_width pixels, two a byte.
FntGlyphBytes(self) == (self.font_height * self.font_width) \div 2

\* C21: in an embedding encode an entry without a graphic is written as a
\* block of zero bytes as long as a real glyph, font_height * font_width / 2
\* bytes, so every record takes 4 bytes and that block and Fnt.decode accepts
\* the size of the output.
C21_BlankGlyphHasGlyphSize ==
    FntEmbeddingEncode =>
        LET out == fnt_encoded.result.bytes
            block == FntGlyphBytes(fnt)
            record == FNT_CHARACTER_ENTRY_FORMAT_LENGTH + block
            start == FNT_HEADER_LENGTH + FNT_NDS_HEADER_LENGTH
        IN  /\ Len(out) = start + Len(fnt.font) * record
            /\ \A k \in 1..Len(fnt.font) :
                   ~fnt.font[k].value.present =>
                       \A j \in 1..block :
                           out[start + (k - 1) * record
                                   + FNT_CHARACTER_ENTRY_FORMAT_LENGTH + j] = 0
            /\ Fnt_decode([seekable |-> TRUE, data |-> out]).status = "ok"

\* The part of C21 that holds: the records of an embedding encode of a table
\* whose entries all have their graphic take 4 bytes and a glyph block, and
\* Fnt.decode accepts the output.
FntGlyphRecordsHaveGlyphSize ==
    (FntEmbeddingEncode
         /\ \A k \in 1..Len(fnt.font) : fnt.font[k].value.present) =>
        LET out == fnt_encoded.result.bytes
        IN  /\ Len(out) = FNT_HEADER_LENGTH + FNT_NDS_HEADER_LENGTH
                              + Len(fnt.font)
                                    * (FNT_CHARACTER_ENTRY_FORMAT_LENGTH
                                           + FntGlyphBytes(fnt))
            /\ Fnt_decode([seekable |-> TRUE, data |-> out]).status = "ok"

-----------------------------------------------------------------------------
(* Properties of the mtx string table *)

\* The u32 total_length field at the start of a stream.
MtxLengthField(data) == FromBytes(ReadAt(data, 0, MTX_LENGTH_WORD_SIZE))

\* C3: Mtx.decode raises the format error whenever the total_length field
\* differs from the number of bytes of the input, a size that is a multiple
\* of the field and a field of 0 included.
C3_LengthFieldMustBeSize ==
    (mtx_input.status = "binary" /\ mtx_input.seekable
         /\ MtxLengthField(mtx_input.data) # Len(mtx_input.data)) =>
        mtx.status = "FileFormatError"

\* A stream Mtx.decode reads past the size check: it can seek, it holds the
\* 4 bytes of the total_length field and that field is its size.
MtxRightSize ==
    /\ mtx_input.status = "binary"
    /\ mtx_input.seekable
    /\ Len(mtx_input.data) >= MTX_LENGTH_WORD_SIZE
    /\ MtxLengthField(mtx_input.data) = Len(mtx_input.data)

\* The bytes k+1..k+n of the stream hold the integer value: they are present
\* (a read at the end of the stream is shorter) and value is their
\* little-endian reading.
HoldsAt(data, k, n, value) ==
    LET word == SubSeq(data, k + 1, Min({k + n, Len(data)}))
        low == SubSeq(word, 1, Min({4, Len(word)}))
    IN  /\ FromBytes(low) = value
        /\ \A j \in 5..Len(word) : word[j] = 0

\* C15: Mtx.decode selects 4-byte offsets exactly when the 4 bytes after
\* total_length hold 8, 8-byte offsets exactly when they hold 16 and the 8
\* bytes at the same position hold 16 too, and raises the format error for
\* every other identifier; section_table_offset and string_table_offset are
\* the next two words of the selected width.
C15_IdentifierSelectsOffsetWidth ==
    MtxRightSize =>
        LET data == mtx_input.data
            narrow == HoldsAt(data, 4, 4, 8)
            wide == HoldsAt(data, 4, 4, 16) /\ HoldsAt(data, 4, 8, 16)
        IN  /\ narrow =>
                   /\ mtx.status = "ok"
                   /\ mtx.offset_word_size = 4
                   /\ HoldsAt(data, 8, 4, mtx.section_table_offset)
                   /\ HoldsAt(data, 12, 4, mtx.string_table_offset)
            /\ wide =>
                   /\ mtx.status = "ok"
                   /\ mtx.offset_word_size = 8
                   /\ HoldsAt(data, 12, 8, mtx.section_table_offset)
                   /\ HoldsAt(data, 20, 8, mtx.string_table_offset)
            /\ (~narrow /\ ~wide) => mtx.status = "FileFormatError"

\* Both widths have been selected in turn: a file whose identifier is 16 in
\* 8 bytes was decoded with 8-byte offsets, its section table at 20.
C15_Witness ==
    /\ MtxRightSize
    /\ mtx.status = "ok"
    /\ mtx.offset_word_size = 8
    /\ mtx.section_table_offset = 20
    /\ mtx.string_table_offset = 28
    /\ mtx.strings = <<<<65>>>>

\* The string of words s is what the bytes from..to-1 of the stream hold as
\* u16 little-endian words.
HoldsWords(data, from, to, s) ==
    LET length == IF to > from THEN (to - from) \div MTX_CHARACTER_WORD_SIZE ELSE 0
    IN  /\ Len(s) = length
        /\ \A j \in 1..length :
               s[j] = FromBytes(ReadAt(data,
                                       from + MTX_CHARACTER_WORD_SIZE * (j - 1),
                                       MTX_CHARACTER_WORD_SIZE))

\* The strings are those the section table delimits: as many as the entries
\* of offset width between section_table_offset and string_table_offset, the
\* k-th in the bytes from the k-th entry to the next, the last one up to
\* total_length.
StringsAreTheSections(data, strings, width, section_table_offset,
                      string_table_offset) ==
    LET entries == (string_table_offset - section_table_offset) \div width
        count == IF entries > 0 THEN entries ELSE 0
        offset(k) ==
            IF k = count THEN MtxLengthField(data)
            ELSE FromBytes(ReadAt(data, section_table_offset + k * width, width))
    IN  /\ Len(strings) = count
        /\ \A k \in 1..count :
               HoldsWords(data, offset(k - 1), offset(k), strings[k])

\* C20: for every input Mtx.decode accepts, the decoded strings are as many
\* as the section table has entries, (string_table_offset -
\* section_table_offset) / offset width, and string k is the u16 words in the
\* bytes from entry k to entry k+1 of the table at section_table_offset, the
\* last string ending at total_length.
C20_StringsAreTheSectionRanges ==
    (mtx_input.status = "binary" /\ mtx.status = "ok") =>
        StringsAreTheSections(mtx_input.data, mtx.strings, mtx.offset_word_size,
                              mtx.section_table_offset, mtx.string_table_offset)

\* A stream laid out as Mtx.encode lays it out: the section table right
\* after the header, one entry or more, the strings right after the table,
\* each a whole number of words long, in the order of their offsets.
MtxSequentialLayout(data, width, section_table_offset, string_table_offset) ==
    LET entries == (string_table_offset - section_table_offset) \div width
        offset(k) ==
            IF k = entries THEN MtxLengthField(data)
            ELSE FromBytes(ReadAt(data, section_table_offset + k * width, width))
    IN  /\ MtxLengthField(data) = Len(data)
        /\ section_table_offset = MTX_LENGTH_WORD_SIZE + 2 * width
        /\ entries >= 1
        /\ string_table_offset = section_table_offset + entries * width
        /\ \A k \in 1..entries :
               /\ offset(k) >= offset(k - 1)
               /\ (offset(k) - offset(k - 1)) % MTX_CHARACTER_WORD_SIZE = 0

\* The part of C20 that holds: a stream laid out as Mtx.encode lays it out is
\* decoded into the strings its section table delimits.
MtxSequentialFilesDecodeBySections ==
    (/\ mtx_input.status = "binary"
     /\ mtx.status = "ok"
     /\ MtxSequentialLayout(mtx_input.data, mtx.offset_word_size,
                            mtx.section_table_offset, mtx.string_table_offset)) =>
        StringsAreTheSections(mtx_input.data, mtx.strings, mtx.offset_word_size,
                              mtx.section_table_offset, mtx.string_table_offset)

\* Streams of that layout have been decoded, with 4-byte and with 8-byte
\* offsets, into two strings.
MtxSequentialFilesDecoded ==
    /\ mtx_input.status = "binary"
    /\ mtx.status = "ok"
    /\ MtxSequentialLayout(mtx_input.data, mtx.offset_word_size,
                           mtx.section_table_offset, mtx.string_table_offset)
    /\ mtx.offset_word_size = MTX64_OFFSET_WORD_SIZE
    /\ mtx.strings = <<<<65>>, <<66, 258>>>>

\* C22: for every table of strings of 16-bit values, the empty table and
\* empty strings included, Mtx.decode of what Mtx.encode wrote, with either
\* offset size, returns the table: as many strings, the same values, the
\* same order.
C22_DecodeOfEncodeIsTable ==
    mtx_redecoded.status /= "none" =>
        /\ mtx_redecoded.status = "ok"
        /\ mtx_redecoded.strings = mtx.strings

\* The part of C22 that holds: a table of one string or more is returned.
MtxDecodeOfEncodeIsNonEmptyTable ==
    (mtx_redecoded.status /= "none" /\ mtx.strings /= <<>>) =>
        /\ mtx_redecoded.status = "ok"
        /\ mtx_redecoded.strings = mtx.strings

\* A table with an empty string first has been written with 8-byte offsets
\* and read back.
MtxNonEmptyTableRedecoded ==
    /\ mtx_input.status = "table"
    /\ mtx.strings = <<<<>>, <<66, 258>>>>
    /\ mtx_encoded.status = "ok"
    /\ mtx_encoded.offset_size = 64
    /\ mtx_redecoded.status = "ok"

\* The number of values in the strings before string k of a table.
ValuesBefore(strings, k) == Len(Concat(SubSeq(strings, 1, k - 1)))

\* C23: Mtx.encode with 32-bit offsets writes total_length, the number of
\* bytes it outputs; the identifier 8; the section-table offset 12; for each
\* of the n strings a 4-byte offset, 12 + 4n + 2 * (the number of values in
\* the strings before it); then the strings as u16 little-endian words in
\* table order.
C23_EncodeLayout32 ==
    (mtx_encoded.status = "ok" /\ mtx_encoded.offset_size = 32) =>
        LET out == mtx_encoded.bytes
            n == Len(mtx.strings)
            values == Concat(mtx.strings)
            first == 12 + 4 * n
        IN  /\ Len(out) = first + 2 * Len(values)
            /\ SubSeq(out, 1, 4) = ToBytes(Len(out), 4)
            /\ SubSeq(out, 5, 8) = <<8, 0, 0, 0>>
            /\ SubSeq(out, 9, 12) = <<12, 0, 0, 0>>
            /\ \A k \in 1..n :
                   SubSeq(out, 12 + 4 * (k - 1) + 1, 12 + 4 * k)
                       = ToBytes(first + 2 * ValuesBefore(mtx.strings, k), 4)
            /\ \A j \in 1..Len(values) :
                   /\ out[first + 2 * j - 1] = values[j] % 256
                   /\ out[first + 2 * j] = values[j] \div 256

\* A table of two strings, the second after one value, has been written
\* with 32-bit offsets.
C23_Witness ==
    /\ mtx_encoded.status = "ok"
    /\ mtx_encoded.offset_size = 32
    /\ mtx.strings = <<<<65>>, <<66, 258>>>>

-----------------------------------------------------------------------------
(* Properties of Mtx.write_xml *)

\* The indices of a string before its first stop code 0xFFFF.
BeforeStop(string) ==
    LET stops == {k \in 1..Len(string) : string[k] = 65535}
        first == IF stops = {} THEN Len(string) + 1
                 ELSE CHOOSE k \in stops : \A j \in stops : k <= j
    IN  SubSeq(string, 1, first - 1)

\* The four codes that are not indices of the font.
IsControlCode(index) == index \in {63507, 63619, 65533, 65535}

\* What one index before the stop code stands for in the rendered string:
\* the marker (-1) for 0xF813, the text 0xF883, a newline, or font[index].
Rendering(font, index) ==
    CASE index = 63507 -> <<-1>>
      [] index = 63619 -> Text0xF883
      [] index = 65533 -> <<10>>
      [] OTHER -> Font_getitem(font, index).character

\* The rendered text of a string: its indices' renderings without the markers.
RenderedText(font, string) ==
    LET before == BeforeStop(string)
    IN  Concat([k \in 1..Len(before) |->
                   IF before[k] = 63507 THEN <<>> ELSE Rendering(font, before[k])])

\* The rendered string with the markers at their positions.
RenderedInline(font, string) ==
    LET before == BeforeStop(string)
    IN  Concat([k \in 1..Len(before) |-> Rendering(font, before[k])])

\* Every index before the stop code of every string is a code or in the font.
AllInFont(font, strings) ==
    \A k \in 1..Len(strings) :
        LET before == BeforeStop(strings[k])
        IN  \A j \in 1..Len(before) :
                IsControlCode(before[j]) \/ Font_getitem(font, before[j]).status = "ok"

\* The content of an element in document order: its text, then each child
\* (the marker -1) followed by the child's tail.
ElementContent(element) ==
    element.text
        \o Concat([k \in 1..Len(element.children) |->
                      <<-1>> \o element.children[k].tail])

\* C11: Mtx.write_xml scans each string up to its first 0xFFFF; the text of
\* the string's node is the concatenation of "0xF883" for 0xF883, a newline
\* for 0xFFFD, nothing for 0xF813 and font[index] for any other index. The
\* four codes are never looked up in the font and the indices after the stop
\* code contribute nothing, so the call succeeds exactly when the other
\* indices before the stop codes are in the font.
C11_TextStopsAtStopCode ==
    mtx_xml.status = "done" =>
        /\ (mtx_xml.result.status = "ok") = AllInFont(mtx_xml.font, mtx.strings)
        /\ mtx_xml.result.status = "ok" =>
               \A k \in 1..Len(mtx.strings) :
                   /\ k <= Len(mtx_xml.result.sheet)
                   /\ mtx_xml.result.sheet[k].text
                          = RenderedText(mtx_xml.font, mtx.strings[k])

\* A string with the stop code at position 3 and an index after it, rendered
\* with the font 'A', 'B': the three characters before the stop code.
C11_Witness ==
    /\ mtx_xml.status = "done"
    /\ mtx_xml.font.type = "fpd"
    /\ mtx.strings = <<<<0, 1, 0, 65535, 1>>>>
    /\ mtx_xml.result.status = "ok"
    /\ mtx_xml.result.sheet[1].text = <<65, 66, 65>>

\* C12: Mtx.write_xml emits one text node per string, in order, and for each
\* 0xF813 before the stop code one arrow node inside the string's node and no
\* character, inline at its position: the text rendered from the indices
\* before it precedes the arrow and the text rendered from the indices after
\* it follows the arrow.
C12_ArrowsAreInline ==
    (mtx_xml.status = "done" /\ mtx_xml.result.status = "ok") =>
        /\ Len(mtx_xml.result.sheet) = Len(mtx.strings)
        /\ \A k \in 1..Len(mtx.strings) :
               ElementContent(mtx_xml.result.sheet[k])
                   = RenderedInline(mtx_xml.font, mtx.strings[k])

-----------------------------------------------------------------------------
(* Properties of the sizes the decoders accept *)

\* The cell of a fmp graphic in bytes: (font_size * 4 / 8)^2 * 2.
CellSize(font_size) ==
    LET width == (font_size * 4) \div 8 IN width * width * 2

\* C13: Fmp.decode rejects with a format error, returning no table, every
\* input whose length is not a multiple of the cell size, and Fpd.decode
\* rejects in the same way every input whose length is not a multiple of 3.
C13_PartialCellsAndRecordsRejected ==
    /\ (fmp_input.status = "binary"
            /\ Len(fmp_input.data) % CellSize(fmp_input.font_size) # 0) =>
           (fmp.status = "FormatError" /\ fmp.font = <<>>)
    /\ (fpd_input.status = "binary" /\ Len(fpd_input.data) % 3 # 0) =>
           (fpd.status = "FormatError" /\ fpd.entries = <<>>)

\* A cell and a half of an 8 pixel font (48 bytes) has been rejected, or two
\* records and a third cut after two bytes.
C13_Witness ==
    \/ /\ fmp_input.status = "binary"
       /\ fmp_input.font_size = 8
       /\ Len(fmp_input.data) = 48
       /\ fmp.status = "FormatError"
    \/ /\ fpd_input.status = "binary"
       /\ Len(fpd_input.data) = 8
       /\ fpd.status = "FormatError"

\* The last n bytes of a byte string.
LastBytes(data, n) ==
    IF Len(data) < n THEN <<>> ELSE SubSeq(data, Len(data) - n + 1, Len(data))

\* The size a fnt file must have: its first 4 bytes are FNT\0 and, with the
\* u32 fields font_height, font_width and count of its 16-byte header, its
\* size is 16 + 32 + count * (4 + font_height * font_width / 2) when the NDS
\* identifier follows the header, else 16 + 4 * count plus the trailer: 4
\* bytes (GCIX or GVRT), 11 bytes (the PSP identifier) or none.
FntWellSized(data) ==
    /\ Len(data) >= 16
    /\ SubSeq(data, 1, 4) = <<70, 78, 84, 0>>
    /\ LET height == FromBytes(SubSeq(data, 5, 8))
           width == FromBytes(SubSeq(data, 9, 12))
           count == FromBytes(SubSeq(data, 13, 16))
           plain == 16 + 4 * count
       IN  IF Len(data) >= 22 /\ SubSeq(data, 17, 22) = FNT_NDS_IDENTIFIER
           THEN Len(data) = 16 + 32 + count * (4 + (height * width) \div 2)
           ELSE IF LastBytes(data, 4) \in FNT_WII_IDENTIFIER
           THEN Len(data) = plain + 4
           ELSE IF LastBytes(data, 11) = FNT_PSP_IDENTIFIER
           THEN Len(data) = plain + 11
           ELSE Len(data) = plain

\* The variant the probes of the format select, the first that matches: the
\* NDS identifier in the 6 bytes after the 16-byte header, else GCIX or GVRT
\* in the last 4 bytes, else the PSP identifier in the last 11 bytes, else
\* none.
FntFirstMarker(data) ==
    IF Len(data) >= 22 /\ SubSeq(data, 17, 22) = FNT_NDS_IDENTIFIER THEN "NDS"
    ELSE IF LastBytes(data, 4) \in FNT_WII_IDENTIFIER THEN "WII"
    ELSE IF LastBytes(data, 11) = FNT_PSP_IDENTIFIER THEN "PSP"
    ELSE "none"

\* The calls of fp.read that find the variant: the header, then one per
\* identifier tried.
FntProbesTo(marker) ==
    CASE marker = "NDS" -> 2
      [] marker = "WII" -> 3
      [] OTHER -> 4

\* Fnt.decode has read a seekable stream past the magic number, and the table
\* is as it was returned.
FntProbed ==
    /\ fnt_input.status = "binary"
    /\ fnt_image = None
    /\ fnt_input.seekable
    /\ Len(fnt_input.data) >= 16
    /\ SubSeq(fnt_input.data, 1, 4) = <<70, 78, 84, 0>>

\* Every graphic of a table has font_height rows of font_width pixels.
FntGraphicsHaveFontSize(self) ==
    \A k \in 1..Len(self.font) :
        self.font[k].value.present =>
            /\ Len(self.font[k].value.pixels) = self.font_height
            /\ \A r \in 1..Len(self.font[k].value.pixels) :
                   Len(self.font[k].value.pixels[r]) = self.font_width

\* Fnt.decode tries the identifiers in the order NDS, GCIX or GVRT, PSP and
\* stops at the first found; it accepts the stream when its size is the size
\* of that variant; the entries have a graphic exactly for the NDS variant.
FntFirstMarkerDecides ==
    FntProbed =>
        LET marker == FntFirstMarker(fnt_input.data)
        IN  /\ fnt.reads >= FntProbesTo(marker)
            /\ fnt.status = "FileFormatError" => fnt.reads = FntProbesTo(marker)
            /\ ~FntWellSized(fnt_input.data) => fnt.status = "FileFormatError"
            /\ fnt.status = "ok" =>
                   /\ FntWellSized(fnt_input.data)
                   /\ \A k \in 1..Len(fnt.font) :
                          fnt.font[k].value.present <=> marker = "NDS"

\* C26: Fnt.decode finds the variant by the first probe that matches, in the
\* order NDS identifier after the header, GCIX or GVRT in the last 4 bytes,
\* PSP identifier in the last 11 bytes, none; graphics are parsed exactly
\* when the NDS identifier matched, and then every entry of the table has a
\* graphic of font_height rows by font_width columns.
C26_FirstMarkerDecidesAndGlyphsHaveFontSize ==
    /\ FntFirstMarkerDecides
    /\ (FntProbed /\ FntWellSized(fnt_input.data)
             /\ FntFirstMarker(fnt_input.data) = "NDS") =>
           /\ fnt.status = "ok"
           /\ FntGraphicsHaveFontSize(fnt)

\* The part of C26 that holds: the order of the probes, and the size of the
\* graphics of the fonts of even width.
FntEvenWidthGlyphsHaveFontSize ==
    /\ FntFirstMarkerDecides
    /\ (FntProbed /\ FntWellSized(fnt_input.data)
             /\ FntFirstMarker(fnt_input.data) = "NDS"
             /\ FromBytes(SubSeq(fnt_input.data, 9, 12)) % 2 = 0) =>
           /\ fnt.status = "ok"
           /\ FntGraphicsHaveFontSize(fnt)

\* A file with the NDS identifier whose last 4 bytes are GCIX has been read as
\* an NDS file, and three records that end with the PSP identifier have been
\* refused as a PSP file of the wrong size.
FntFirstOfTwoMarkersTaken ==
    /\ FntProbed
    /\ \/ /\ FntFirstMarker(fnt_input.data) = "NDS"
          /\ LastBytes(fnt_input.data, 4) \in FNT_WII_IDENTIFIER
          /\ fnt.status = "ok"
          /\ fnt.font[1].value.present
       \/ /\ FntFirstMarker(fnt_input.data) = "PSP"
          /\ Len(fnt_input.data) = 16 + 4 * FromBytes(SubSeq(fnt_input.data, 13, 16))
          /\ fnt.status = "FileFormatError"

RECURSIVE FntRecordEnds(_, _, _, _, _)
\* The positions at which the records k.. of a table can end in the output
\* when record k starts at pos: each record is the code point and the width
\* as u16, and with embed a glyph block follows it, the packed graphic of the
\* entry or, for an entry without one, a block of zero bytes of at most the
\* size of a glyph.
FntRecordEnds(self, out, pos, k, embed) ==
    IF k > Len(self.font) THEN {pos}
    ELSE LET character == self.font[k].value
             entry == PackU16(self.font[k].key[1]) \o PackU16(character.width.n)
             block == write_4bpp_graphic(Flatten(character.pixels)).bytes
             after == pos + FNT_CHARACTER_ENTRY_FORMAT_LENGTH
         IN  IF ReadAt(out, pos, FNT_CHARACTER_ENTRY_FORMAT_LENGTH) # entry THEN {}
             ELSE IF ~embed THEN FntRecordEnds(self, out, after, k + 1, embed)
             ELSE IF character.present
             THEN IF ReadAt(out, after, Len(block)) = block
                  THEN FntRecordEnds(self, out, after + Len(block), k + 1, embed)
                  ELSE {}
             ELSE UNION {IF ReadAt(out, after, n) = [j \in 1..n |-> 0]
                         THEN FntRecordEnds(self, out, after + n, k + 1, embed)
                         ELSE {} : n \in 1..FntGlyphBytes(self)}

\* C27: Fnt.encode writes the 32-byte sub-header (the NDS identifier and 26
\* zero bytes) and a glyph block after each record exactly when the version
\* is NDS, or PTE with an entry that has a graphic; it ends the output with
\* GCIX, GVRT or the PSP identifier exactly when that version is asked for,
\* without glyph blocks; the count of the header is the number of records
\* written.
C27_EmbedsForNdsOrGraphics ==
    (fnt.status = "ok" /\ fnt_encoded.status = "done"
         /\ fnt_encoded.result.status = "ok") =>
        LET out == fnt_encoded.result.bytes
            version == fnt_encoded.version
            embed == \/ version = "NDS"
                     \/ version = "PTE" /\ \E k \in 1..Len(fnt.font) :
                                               fnt.font[k].value.present
            sub == IF embed THEN <<224, 3, 255, 127, 198, 24>> \o [j \in 1..26 |-> 0]
                   ELSE <<>>
            trailer == CASE version = "GCIX" -> <<71, 67, 73, 88>>
                         [] version = "GVRT" -> <<71, 86, 82, 84>>
                         [] version = "PSP" -> <<77, 73, 71, 46, 48, 48, 46, 49, 80, 83, 80>>
                         [] OTHER -> <<>>
        IN  /\ Len(out) >= 16 + Len(sub) + Len(trailer)
            /\ SubSeq(out, 1, 4) = <<70, 78, 84, 0>>
            /\ FromBytes(SubSeq(out, 13, 16)) = Len(fnt.font)
            /\ ReadAt(out, 16, Len(sub)) = sub
            /\ (Len(out) - Len(trailer))
                   \in FntRecordEnds(fnt, out, 16 + Len(sub), 1, embed)
            /\ LastBytes(out, Len(trailer)) = trailer

\* A table decoded from an NDS file has been written in the auto mode with
\* its sub-header and glyph blocks, and as a GCIX file without them.
C27_Witness ==
    /\ fnt.status = "ok"
    /\ Len(fnt.font) = 2
    /\ fnt.font[1].value.present
    /\ fnt_encoded.status = "done"
    /\ fnt_encoded.result.status = "ok"
    /\ \/ fnt_encoded.version = "PTE"
          /\ Len(fnt_encoded.result.bytes) = 16 + 32 + 2 * (4 + 2)
       \/ fnt_encoded.version = "GCIX"
          /\ Len(fnt_encoded.result.bytes) = 16 + 2 * 4 + 4

\* add_graphics has been given an image that is a grid of cells of the font
\* size of the table.
FntImageIsGrid ==
    /\ fnt_image.input.grid
    /\ fnt_image.input.size = <<fnt_image.before.font_height, fnt_image.before.font_width>>

\* C28: Fnt.add_graphics raises when the image has fewer graphics than the
\* table has entries, and then no entry is changed; otherwise the k-th entry
\* of the table gets the k-th graphic of the image, the cells taken row by
\* row, graphics beyond the entries are ignored, and the characters, the
\* widths and the order of the entries stay as they were.
C28_GraphicsFillEntriesInOrder ==
    fnt_image.status # "none" =>
        LET before == fnt_image.before
            cells == fnt_image.input.cells
        IN  /\ fnt_image.status # "ok" => fnt = before
            /\ (FntImageIsGrid /\ Len(cells) < Len(before.font)) =>
                   fnt_image.status = "ValueError"
            /\ (FntImageIsGrid /\ Len(cells) >= Len(before.font)) =>
                   /\ fnt_image.status = "ok"
                   /\ Len(fnt.font) = Len(before.font)
                   /\ fnt.character_list = before.character_list
                   /\ \A k \in 1..Len(before.font) :
                          /\ fnt.font[k].key = before.font[k].key
                          /\ fnt.font[k].value.width = before.font[k].value.width
                          /\ fnt.font[k].value.present
                          /\ fnt.font[k].value.pixels = cells[k]

\* A table of three entries without graphics has got the first three of the
\* four graphics of a grid of 2 x 2 cells, the third from the second row.
C28_Witness ==
    /\ fnt_image.status = "ok"
    /\ Len(fnt_image.before.font) = 3
    /\ ~fnt_image.before.font[1].value.present
    /\ fnt_image.input.rows = 2
    /\ fnt_image.input.cols = 2
    /\ fnt_image.input.padding = 1
    /\ fnt.font[3].value.pixels = <<<<FALSE, FALSE>>, <<TRUE, FALSE>>>>

\* A table of three entries has been refused an image of two graphics.
FntImageOfTooFewGraphicsRefused ==
    /\ fnt_image.status = "ValueError"
    /\ FntImageIsGrid
    /\ Len(fnt_image.before.font) = 3
    /\ Len(fnt_image.input.cells) = 2

\* C14: Fnt.decode returns a table only if the input starts with FNT\0 and
\* its size is exactly the size its header and detected variant imply; every
\* other input, one shorter than the 16-byte header included, is rejected
\* with the format error and yields no table.
C14_FntSizeAndMagicChecked ==
    (fnt_input.status = "binary" /\ fnt_input.seekable) =>
        /\ fnt.status = "ok" => FntWellSized(fnt_input.data)
        /\ ~FntWellSized(fnt_input.data) =>
               (fnt.status = "FileFormatError" /\ fnt.font = <<>>)

\* C16: Fnt.decode and Mtx.decode, given a source that reports it cannot
\* seek, raise io.UnsupportedOperation before any call of fp.read and return
\* no table; the source is not decoded in some other way.
C16_UnseekableFailsBeforeReading ==
    /\ (fnt_input.status = "binary" /\ ~fnt_input.seekable) =>
           /\ fnt.status = "UnsupportedOperation"
           /\ fnt.reads = 0
           /\ fnt.font = <<>>
    /\ (mtx_input.status = "binary" /\ ~mtx_input.seekable) =>
           /\ mtx.status = "UnsupportedOperation"
           /\ mtx.reads = 0
           /\ mtx.strings = <<>>

\* A well-formed mtx file of one string, from a source that cannot seek, has
\* been refused, and the same file is read when the source can seek.
C16_Witness ==
    /\ mtx_input.status = "binary"
    /\ ~mtx_input.seekable
    /\ mtx_input.data = Mtx_encode(<<<<65>>>>, 32)
    /\ mtx.status = "UnsupportedOperation"
    /\ Mtx_decode([seekable |-> TRUE, data |-> mtx_input.data]).reads > 0

-----------------------------------------------------------------------------
(* Properties of the CSV projection of both character tables *)

\* The header row of the CSV convention: character,width.
CsvHeaderOfSpec == <<"character", "width">>

\* C17: Fpd.write_csv and Fnt.write_csv both emit the header row
\* character,width; Fpd.read_csv and Fnt.read_csv both accept a CSV with
\* exactly that header and reject every other header with a format error; so
\* the CSV one table type wrote is accepted by the other.
C17_OneCsvHeaderForBothTables ==
    /\ fpd_csv.status = "ok" =>
           /\ fpd_csv.csv.header = CsvHeaderOfSpec
           /\ Fnt_read_csv(fpd_csv.csv, 2, 2).status = "ok"
    /\ fnt_csv.status = "ok" =>
           /\ fnt_csv.csv.header = CsvHeaderOfSpec
           /\ Fpd_read_csv(fnt_csv.csv).status = "ok"
    /\ (fpd_input.status = "csv" /\ fpd_input.data.header # CsvHeaderOfSpec) =>
           fpd.status = "FormatError"
    /\ (fnt_input.status = "csv" /\ fnt_input.header # CsvHeaderOfSpec) =>
           fnt.status = "FileFormatError"
    /\ (fnt_input.status = "csv" /\ fnt_input.header = CsvHeaderOfSpec) =>
           fnt.status = "ok"

-----------------------------------------------------------------------------
(* Properties of failed calls *)

\* C18: a failed decode or encode yields no partial result: a decode that
\* raises returns no table, and a Fpd.encode or Fnt.encode that raises
\* because a character cannot be encoded leaves the output stream without
\* any byte written by that call.
C18_NoPartialResult ==
    /\ (fpd_input.status # "none" /\ fpd.status # "ok") => fpd.entries = <<>>
    /\ (fnt_input.status # "none" /\ fnt.status # "ok") => fnt.font = <<>>
    /\ (fpd_encoded.status = "FormatError") => fpd_encoded.bytes = <<>>
    /\ (fnt_encoded.status = "done" /\ fnt_encoded.result.status = "FileFormatError") =>
           fnt_encoded.result.bytes = <<>>

-----------------------------------------------------------------------------
(* Properties of the grid of an exported image *)

\* (a, b) is the divisor pair of n closest to a square: a * b = n, a <= b
\* and no divisor of n between a and the square root of n.
ClosestToSquare(n, a, b) ==
    /\ a * b = n
    /\ a <= b
    /\ \A c \in 1..n : (n % c = 0 /\ c * c <= n) => c <= a

\* What the claim asks of a chooser called with n.
ChoosesClosestToSquare(n, chosen) ==
    IF n <= 0 THEN chosen.status = "ValueError"
    ELSE /\ chosen.status = "ok"
         /\ Len(chosen.pair) = 2
         /\ ClosestToSquare(n, chosen.pair[1], chosen.pair[2])

\* What the claim asks of the grid of an image exported for n >= 1 graphics.
ExportsClosestToSquare(n, image, orientation) ==
    /\ image.status = "ok"
    /\ image.width * image.height = n
    /\ orientation = "portrait" => image.width <= image.height
    /\ orientation = "landscape" => image.width >= image.height
    /\ \/ ClosestToSquare(n, image.width, image.height)
       \/ ClosestToSquare(n, image.height, image.width)

\* C29: the grid chooser of the image export returns for every natural
\* number n the pair (a, b) with a * b = n and a <= b closest to a square,
\* (2, 5) for 10 and (1, 7) for 7, and raises ValueError for n <= 0; the grid
\* of the exported image has width * height = n cells, width <= height in
\* portrait and width >= height in landscape (Fmp.to_image always exports in
\* portrait, and is taken with its default max_width).
C29_GridIsClosestToSquare ==
    /\ grid_input.status \in {"medium", "proper"} =>
           ChoosesClosestToSquare(grid_input.n, grid_result)
    /\ (grid_input.status = "graphics" /\ grid_input.n >= 1) =>
           ExportsClosestToSquare(grid_input.n, grid_result, grid_input.orientation)
    /\ (grid_input.status = "fmp" /\ grid_input.n >= 1 /\ grid_input.max_width = 32) =>
           ExportsClosestToSquare(grid_input.n, grid_result, "portrait")

\* The part of C29 that holds: with the chooser find_medium_divisors that the
\* claim describes, write_graphics_to_image lays n >= 1 graphics out in the
\* closest-to-square grid turned to the orientation asked for, each graphic
\* once, row by row; and an image that Fmp.to_image returns has
\* width * height = n cells and width <= height.
GridOfExportHasAllGraphics ==
    /\ grid_input.status = "medium" => ChoosesClosestToSquare(grid_input.n, grid_result)
    /\ (grid_input.status = "graphics" /\ grid_input.n >= 1) =>
           /\ ExportsClosestToSquare(grid_input.n, grid_result, grid_input.orientation)
           /\ Concat(grid_result.cells) = [k \in 1..grid_input.n |-> k - 1]
    /\ (grid_input.status = "fmp" /\ grid_result.status = "ok") =>
           /\ grid_result.width * grid_result.height = grid_input.n
           /\ grid_result.width <= grid_result.height
           /\ Concat(grid_result.cells) = [k \in 1..grid_input.n |-> k - 1]

\* Ten graphics have been exported in landscape as a grid of 5 x 2 cells.
GridOfTenGraphicsExported ==
    /\ grid_input.status = "graphics"
    /\ grid_input.n = 10
    /\ grid_input.orientation = "landscape"
    /\ grid_result.status = "ok"
    /\ grid_result.width = 5
    /\ grid_result.height = 2

-----------------------------------------------------------------------------
(* Properties of decompress_lz11 *)

\* The call got two streams it can work on: a source that seeks, an output
\* that reads.
LzUsableStreams ==
    /\ lz_input /= None
    /\ lz_input.in_fp.seekable
    /\ lz_input.out_fp.readable

\* The call will write no more: it has ended, or it is at the head of the
\* while loop below the decompressed size with the input used up, where every
\* flag it reads is 0 and every byte it copies is no byte.
LzWritesNoMore ==
    \/ lz.status /= "running"
    \/ /\ lz.pc = "while"
       /\ lz.position >= Len(lz_input.in_fp.data)
       /\ Len(lz.out) < lz.decompressed_size

\* C19: decompress_lz11 raises DecompressionError with nothing written when
\* the first byte of the input is not 0x11; it returns only when the bytes
\* written are as many as the header declares (in 3 bytes, or in the
\* following 4 when those are zero); and whenever it has produced another
\* number of bytes it raises DecompressionError.
C19_WrittenSizeIsDeclaredSize ==
    LzUsableStreams =>
        LET data == lz_input.in_fp.data
        IN  /\ ReadAt(data, 0, 1) /= <<17>> =>
                /\ lz.status = "DecompressionError"
                /\ lz.out = <<>>
            /\ lz.status = "ok" => Len(lz.out) = LzDecompressedSize(data)
            /\ (LzWritesNoMore /\ Len(lz.out) /= LzDecompressedSize(data)) =>
                   lz.status = "DecompressionError"

\* The parts of C19 that hold: the magic number, and the size of what a call
\* that returned has written.
LzReturnsOnlyDeclaredSize ==
    LzUsableStreams =>
        LET data == lz_input.in_fp.data
        IN  /\ ReadAt(data, 0, 1) /= <<17>> =>
                /\ lz.status = "DecompressionError"
                /\ lz.out = <<>>
            /\ lz.status = "ok" => Len(lz.out) = LzDecompressedSize(data)
            /\ (lz.status = "running" /\ lz.pc = "while"
                    /\ Len(lz.out) > lz.decompressed_size) =>
                   LzWhileStep(lz, data).status = "DecompressionError"

\* decompress_lz11 has been called, and the call has returned or raised.
LzCalled == lz_input.status = "streams"
LzCallEnded == lz.status \notin {"none", "running"}

\* C30: every call of decompress_lz11 ends after finitely many steps, with
\* the output written or with an exception, also when the input ends before
\* the declared size has been produced.
C30_EveryCallEnds == LzCalled ~> LzCallEnded

\* The part of C30 that holds: a call ends or comes to the end of its input;
\* only at the end of the input can it run forever.
LzEndsOrExhaustsInput ==
    LzCalled ~> \/ LzCallEnded
                \/ /\ lz.status = "running"
                   /\ lz.position >= Len(lz_input.in_fp.data)

\* A call is running at the end of its input with less written than declared.
LzRunningAtEndOfInput ==
    /\ LzCalled
    /\ lz.status = "running"
    /\ lz.pc = "while"
    /\ lz.position >= Len(lz_input.in_fp.data)
    /\ Len(lz.out) < lz.decompressed_size

-----------------------------------------------------------------------------
(* Properties of the graphic codec *)

\* C10: for every boolean matrix of R rows and W columns, W even, unpacking
\* with parse_4bpp_graphic at W/2 bytes a row what write_4bpp_graphic packed
\* from the flattened matrix returns exactly the matrix.
C10_ParseOfWriteIsGraphic ==
    (bitmap.status = "ok" /\ bitmap_parsed.status # "none") =>
        /\ bitmap_parsed.status = "ok"
        /\ bitmap_parsed.pixels = bitmap.pixels

\* A matrix of two rows of four pixels, its first pixel set and its second
\* clear, packed and unpacked.
C10_Witness ==
    /\ bitmap.status = "ok"
    /\ bitmap_parsed.status = "ok"
    /\ Len(bitmap.pixels) = 2
    /\ Len(bitmap.pixels[1]) = 4
    /\ bitmap.pixels[1][1]
    /\ ~bitmap.pixels[1][2]
    /\ bitmap.pixels[2][4]
    /\ bitmap_packed.bytes = <<1, 0, 0, 16>>

\* The rows of a matrix have the same number of pixels.
SameRowLengths(pixels) ==
    \A r \in 1..Len(pixels) : Len(pixels[r]) = Len(pixels[1])

\* C24: parse_4bpp_graphic rejects with the format error a byte string whose
\* length is not a multiple of the bytes of a row; it never returns a matrix
\* whose last row is shorter than the others and never fails with another
\* error.
C24_PartialRowsRejected ==
    bitmap.status = "bytes" =>
        /\ Len(bitmap.graphic_data) % bitmap.graphic_width /= 0 =>
               bitmap_parsed.status = "FormatError"
        /\ bitmap_parsed.status = "ok" => SameRowLengths(bitmap_parsed.pixels)
        /\ bitmap_parsed.status \in {"ok", "FormatError"}

\* The part of C24 that holds: whole rows are unpacked into a matrix, and no
\* matrix has rows of different lengths.
GraphicWholeRowsParsed ==
    bitmap.status = "bytes" =>
        /\ Len(bitmap.graphic_data) % bitmap.graphic_width = 0 =>
               /\ bitmap_parsed.status = "ok"
               /\ Len(bitmap_parsed.pixels)
                      = Len(bitmap.graphic_data) \div bitmap.graphic_width
        /\ bitmap_parsed.status = "ok" => SameRowLengths(bitmap_parsed.pixels)

\* The pixels are those of the bytes: byte k gives pixels 2k and 2k+1 of the
\* flat row-major sequence (for k from 0), the low nibble the first, the high
\* nibble the second, a pixel set when its nibble is not 0.
UnpackedFrom(flat, bytes) ==
    /\ Len(flat) = 2 * Len(bytes)
    /\ \A k \in 1..Len(bytes) :
           /\ flat[2 * k - 1] = (bytes[k] % 16 /= 0)
           /\ flat[2 * k] = (bytes[k] \div 16 /= 0)

\* The bytes are those of the pixels: the first pixel of each pair in the low
\* nibble, the second in the high one, 1 for a set pixel.
PackedFrom(bytes, flat) ==
    /\ 2 * Len(bytes) = Len(flat)
    /\ \A k \in 1..Len(bytes) :
           /\ bytes[k] \in {0, 1, 16, 17}
           /\ (bytes[k] % 16 = 1) = flat[2 * k - 1]
           /\ (bytes[k] \div 16 = 1) = flat[2 * k]

\* C25: parse_4bpp_graphic and Fmp.decode map byte k of a glyph to the pixels
\* 2k and 2k+1 in row-major order, the low nibble the first pixel, the high
\* nibble the second, set when the nibble is not 0; write_4bpp_graphic and
\* Fmp.encode write the first pixel of a pair into the low nibble, 1 for a
\* set pixel, so every byte is 0x00, 0x01, 0x10 or 0x11.
C25_LowNibbleIsFirstPixel ==
    /\ (bitmap.status = "bytes" /\ bitmap_parsed.status = "ok") =>
           UnpackedFrom(Flatten(bitmap_parsed.pixels), bitmap.graphic_data)
    /\ (fmp_input.status = "binary" /\ fmp.status = "ok") =>
           LET size == Len(fmp_input.data) \div Len(fmp.font)
           IN  \A c \in 1..Len(fmp.font) :
                   UnpackedFrom(Flatten(fmp.font[c]),
                                SubSeq(fmp_input.data, (c - 1) * size + 1, c * size))
    /\ (bitmap.status = "ok" /\ bitmap_packed.status = "ok") =>
           PackedFrom(bitmap_packed.bytes, Flatten(bitmap.pixels))
    /\ fmp_encoded.status = "ok" =>
           PackedFrom(fmp_encoded.bytes,
                      Concat([c \in 1..Len(fmp.font) |-> Flatten(fmp.font[c])]))

\* A cell of a 2 pixel font whose bytes 0x01 and 0x10 were unpacked by
\* Fmp.decode into the rows (set, clear) and (clear, set) and packed again.
C25_Witness ==
    /\ fmp_input.status = "binary"
    /\ fmp_input.data = <<1, 16>>
    /\ fmp.status = "ok"
    /\ fmp.font = <<<<<<TRUE, FALSE>>, <<FALSE, TRUE>>>>>>
    /\ fmp_encoded.status = "ok"
    /\ fmp_encoded.bytes = <<1, 16>>

=============================================================================
